---- MODULE Spec2Model ----
(***************************************************************************)
(* A model of the procedural synthesis engine of musiclab's audio scripts: *)
(* pitch math, the ADSR envelope generators, soft clipping, chord mixing   *)
(* and the piano generator's phase cache.                                  *)
(*                                                                         *)
(* Numbers.  The Python code computes on float64; the model computes on    *)
(* fixed-point integers: an amplitude a is the integer a * SCALE, times    *)
(* are whole milliseconds, sample counts are integers.  Every quotient is  *)
(* rounded towards minus infinity (\div).  exp and tanh are computed by    *)
(* series on that grid, so that e.g. tanh saturates at exactly 1 for large *)
(* arguments, as it does in float64.                                       *)
(***************************************************************************)
EXTENDS Integers, Sequences, FiniteSets, TLC

VARIABLES
    env,          \* the last envelope call: its inputs and what it returned
    clip,         \* the last soft_clip call
    mixer,        \* the ChordMixer instance: its config and its last mix call
    piano,        \* the EnhancedPianoGenerator instance: phase cache, last lookup
    pitch,        \* the last midi_to_frequency call
    note,         \* the last call on the note-rendering path of a generator
    analysis,     \* the buffer an AudioQualityAnalyzer is handed and its reports
    disk,         \* an AudioExporter, the ffmpeg executable and the output directory
    batch,        \* a batch render: its notes, its workers, quality_stats
    facade        \* an AudioGenerator of audio_util.py: its piano and piano config

vars == <<env, clip, mixer, piano, pitch, note, analysis, disk, batch, facade>>

----------------------------------------------------------------------------
(* Bounds of the model *)

\* longest envelope asked for (num_samples)
MaxSamples == 5
\* longest attack / decay / release and longest note, in milliseconds
MaxMs == 3
\* longest audio buffer handed to soft_clip and to mix
MaxBufLen == 2
\* most buffers handed to one mix call, most notes of one chord
MaxVoices == 2
\* most calls of mix on one request
MaxCalls == 2
\* distinct values the phase generator can draw
NumPhases == 3
\* how far below 0 and above 127 the notes handed to midi_to_frequency reach
MidiMargin == 24
\* most export calls on one exporter
MaxExports == 2
\* notes of one batch
BatchSize == 2
\* values taken from the random stream by the calls on one AudioGenerator
MaxDraws == 8

----------------------------------------------------------------------------
(* Fixed-point arithmetic *)

SCALE == 10 ^ 4

Abs(x) == IF x < 0 THEN -x ELSE x
Sign(x) == IF x < 0 THEN -1 ELSE IF x > 0 THEN 1 ELSE 0
Min(a, b) == IF a <= b THEN a ELSE b
Max(a, b) == IF a >= b THEN a ELSE b

(* a * b and a / b on the grid *)
FMul(a, b) == (a * b) \div SCALE
FDiv(a, b) == (a * SCALE) \div b

(* the same on signed values: the magnitude is rounded, the sign kept, as   *)
(* float arithmetic is symmetric in the sign                                *)
SMul(a, b) == Sign(a) * Sign(b) * FMul(Abs(a), Abs(b))
SDiv(a, b) == Sign(a) * Sign(b) * FDiv(Abs(a), Abs(b))

(* np.sqrt(n) for a natural number n, on the grid, by bisection *)
RECURSIVE Bisect(_, _, _)
Bisect(lo, hi, sq) ==
    IF hi - lo <= 1 THEN lo
    ELSE LET mid == (lo + hi) \div 2
         IN  IF mid * mid <= sq THEN Bisect(mid, hi, sq) ELSE Bisect(lo, mid, sq)
Sqrt(n) == Bisect(0, 4 * SCALE, n * SCALE * SCALE)

(* e^z for 0 <= z < 1 (z on the grid): the Taylor series, 10 terms *)
RECURSIVE ExpSeries(_, _, _)
ExpSeries(z, k, term) ==
    IF k > 10 \/ term = 0 THEN 0
    ELSE term + ExpSeries(z, k + 1, (term * z) \div (k * SCALE))

(* e^(-n) for a natural number n *)
RECURSIVE ExpNegInt(_)
ExpNegInt(n) == IF n = 0 THEN SCALE ELSE (3679 * ExpNegInt(n - 1)) \div SCALE

(* np.exp(-z) for z >= 0 on the grid *)
ExpNeg(z) ==
    LET n == z \div SCALE
        f == z % SCALE
    IN  IF n > 10 THEN 0
        ELSE FMul(ExpNegInt(n), (SCALE * SCALE) \div ExpSeries(f, 1, SCALE))

(* np.tanh(y) for y >= 0 on the grid: (1 - e^-2y) / (1 + e^-2y) *)
TanhPos(y) ==
    LET e2 == ExpNeg(2 * y)
    IN  ((SCALE - e2) * SCALE) \div (SCALE + e2)

(* np.tanh(y): odd *)
Tanh(y) == Sign(y) * TanhPos(Abs(y))

(* t ** c for t in [0,1] on the grid and a whole exponent c >= 1 *)
RECURSIVE Pow(_, _)
Pow(t, c) == IF c <= 1 THEN t ELSE FMul(t, Pow(t, c - 1))

(* np.linspace(a, b, n)[i], 0 <= i < n: a + i * (b - a) / (n - 1); [a] for n = 1 *)
Linspace(a, b, n, i) == IF n = 1 THEN a ELSE a + (i * (b - a)) \div (n - 1)

(* int(seconds * sample_rate), the time given in whole milliseconds *)
ToSamples(ms, sample_rate) == (ms * sample_rate) \div 1000

(* numpy's slice assignment a[lo:hi] = rhs raises ValueError unless rhs has  *)
(* the slice's length or length 1 (which broadcasts, also to length 0)       *)
SliceLen(lo, hi, n) == Max(0, Min(hi, n) - Min(lo, n))
AssignRaises(slice_len, rhs_len) == rhs_len # slice_len /\ rhs_len # 1

----------------------------------------------------------------------------
(* EnvelopeGenerator: three implementations of the ADSR envelope.           *)
(* An envelope config is [attack, decay, release: milliseconds,             *)
(* sustain: amplitude, attack_curve, decay_curve, release_curve: exponent]. *)
(* A result is [status, envelope, seg]: status "returned" or "raised"       *)
(* (numpy's ValueError), envelope the array returned (a sequence, index 1   *)
(* is Python's index 0), seg the number of entries each segment wrote and   *)
(* the position it started at.                                              *)

SampleRates == {1000, 1500}
SustainLevels == {0, (4 * SCALE) \div 10, (6 * SCALE) \div 10, SCALE}
Curves == {1, 2}

EnvelopeConfigs ==
    [attack : 0..MaxMs, decay : 0..MaxMs, release : 0..MaxMs,
     sustain : SustainLevels,
     attack_curve : Curves, decay_curve : Curves, release_curve : Curves]

NoSeg == [start |-> 0, len |-> 0]
Seg(written, start, len) == IF written THEN [start |-> start, len |-> len] ELSE NoSeg
Raised == [status |-> "raised", envelope |-> <<>>,
           seg |-> [attack |-> NoSeg, decay |-> NoSeg, sustain |-> NoSeg, release |-> NoSeg]]

(* audio/processors/envelope_generator.py: EnvelopeGenerator.adsr *)
Adsr(num_samples, sample_rate, config) ==
    LET attack_samples == ToSamples(config.attack, sample_rate)
        decay_samples == ToSamples(config.decay, sample_rate)
        release_cfg == ToSamples(config.release, sample_rate)
        sustain_max == Max(0, num_samples - attack_samples - decay_samples - release_cfg)
        sustain_samples == IF sustain_max <= 0 THEN 0 ELSE sustain_max
        release_samples == IF sustain_max <= 0
                           THEN num_samples - attack_samples - decay_samples
                           ELSE release_cfg
        do_attack == attack_samples > 0 /\ 0 + attack_samples <= num_samples
        pos1 == IF do_attack THEN attack_samples ELSE 0
        do_decay == decay_samples > 0 /\ pos1 + decay_samples <= num_samples
        pos2 == IF do_decay THEN pos1 + decay_samples ELSE pos1
        do_sustain == sustain_samples > 0 /\ pos2 + sustain_samples <= num_samples
        pos3 == IF do_sustain THEN pos2 + sustain_samples ELSE pos2
        do_release == release_samples > 0 /\ pos3 < num_samples
        actual_release == Min(num_samples - pos3, release_samples)
        AttackAt(i) ==
            IF config.attack_curve # 1
            THEN Pow(Linspace(0, SCALE, attack_samples, i), config.attack_curve)
            ELSE Linspace(0, SCALE, attack_samples, i)
        DecayAt(i) ==
            IF config.decay_curve # 1
            THEN SCALE - FMul(SCALE - config.sustain,
                              Pow(Linspace(0, SCALE, decay_samples, i), config.decay_curve))
            ELSE Linspace(SCALE, config.sustain, decay_samples, i)
        SustainAt(i) ==
            FMul(config.sustain, ExpNeg(Linspace(0, SCALE, sustain_samples, i) \div 2))
        env3 == [k \in 1..num_samples |->
                    IF do_attack /\ k <= pos1 THEN AttackAt(k - 1)
                    ELSE IF do_decay /\ k > pos1 /\ k <= pos2 THEN DecayAt(k - 1 - pos1)
                    ELSE IF do_sustain /\ k > pos2 /\ k <= pos3 THEN SustainAt(k - 1 - pos2)
                    ELSE 0]
        start_level == IF pos3 > 0 THEN env3[pos3] ELSE config.sustain
        ReleaseAt(i) ==
            IF config.release_curve # 1
            THEN FMul(start_level,
                      SCALE - Pow(Linspace(0, SCALE, actual_release, i), config.release_curve))
            ELSE FMul(start_level, ExpNeg(3 * Linspace(0, SCALE, actual_release, i)))
    IN  [status |-> "returned",
         envelope |-> [k \in 1..num_samples |->
                          IF do_release /\ k > pos3 /\ k <= pos3 + actual_release
                          THEN ReleaseAt(k - 1 - pos3)
                          ELSE env3[k]],
         seg |-> [attack |-> Seg(do_attack, 0, attack_samples),
                  decay |-> Seg(do_decay, pos1, decay_samples),
                  sustain |-> Seg(do_sustain, pos2, sustain_samples),
                  release |-> Seg(do_release, pos3, actual_release)]]

(* generate_audio.py: EnvelopeGenerator.adsr (no curves; the attack is      *)
(* written without asking whether it fits)                                  *)
AdsrLegacy(num_samples, sample_rate, config) ==
    LET attack_samples == ToSamples(config.attack, sample_rate)
        decay_samples == ToSamples(config.decay, sample_rate)
        release_cfg == ToSamples(config.release, sample_rate)
        sustain_max == Max(0, num_samples - attack_samples - decay_samples - release_cfg)
        sustain_samples == IF sustain_max <= 0 THEN 0 ELSE sustain_max
        release_samples == IF sustain_max <= 0
                           THEN num_samples - attack_samples - decay_samples
                           ELSE release_cfg
        do_attack == attack_samples > 0
        attack_len == SliceLen(0, attack_samples, num_samples)
        pos1 == IF do_attack THEN attack_samples ELSE 0
        do_decay == decay_samples > 0 /\ pos1 + decay_samples <= num_samples
        pos2 == IF do_decay THEN pos1 + decay_samples ELSE pos1
        do_sustain == sustain_samples > 0 /\ pos2 + sustain_samples <= num_samples
        pos3 == IF do_sustain THEN pos2 + sustain_samples ELSE pos2
        do_release == release_samples > 0 /\ pos3 < num_samples
        actual_release == Min(num_samples - pos3, release_samples)
        env3 == [k \in 1..num_samples |->
                    IF do_attack /\ k <= pos1 THEN Linspace(0, SCALE, attack_samples, k - 1)
                    ELSE IF do_decay /\ k > pos1 /\ k <= pos2
                         THEN Linspace(SCALE, config.sustain, decay_samples, k - 1 - pos1)
                    ELSE IF do_sustain /\ k > pos2 /\ k <= pos3
                         THEN FMul(config.sustain,
                                   ExpNeg(Linspace(0, SCALE, sustain_samples, k - 1 - pos2) \div 2))
                    ELSE 0]
        start_level == IF pos3 > 0 THEN env3[pos3] ELSE config.sustain
    IN  IF do_attack /\ AssignRaises(attack_len, attack_samples) THEN Raised
        ELSE [status |-> "returned",
              envelope |-> [k \in 1..num_samples |->
                               IF do_release /\ k > pos3 /\ k <= pos3 + actual_release
                               THEN FMul(start_level,
                                         ExpNeg(3 * Linspace(0, SCALE, actual_release, k - 1 - pos3)))
                               ELSE env3[k]],
              seg |-> [attack |-> Seg(do_attack, 0, attack_len),
                       decay |-> Seg(do_decay, pos1, decay_samples),
                       sustain |-> Seg(do_sustain, pos2, sustain_samples),
                       release |-> Seg(do_release, pos3, actual_release)]]

(* audio_util.py: EnvelopeGenerator.generate(config, duration) *)
EnvelopeGenerate(duration_ms, sample_rate, config) ==
    LET total_samples == ToSamples(duration_ms, sample_rate)
        attack_samples == ToSamples(config.attack, sample_rate)
        decay_samples == ToSamples(config.decay, sample_rate)
        release_samples == ToSamples(config.release, sample_rate)
        sustain_samples == Max(0, total_samples - attack_samples - decay_samples
                                   - release_samples)
        do_attack == attack_samples > 0
        attack_len == SliceLen(0, attack_samples, total_samples)
        pos1 == IF do_attack THEN attack_samples ELSE 0
        do_decay == decay_samples > 0 /\ pos1 < total_samples
        pos2 == IF do_decay THEN Min(pos1 + decay_samples, total_samples) ELSE pos1
        do_sustain == sustain_samples > 0 /\ pos2 < total_samples
        pos3 == IF do_sustain THEN Min(pos2 + sustain_samples, total_samples) ELSE pos2
        do_release == release_samples > 0 /\ pos3 < total_samples
        remaining == total_samples - pos3
        ReleaseAt(i) ==
            FMul(config.sustain,
                 SCALE - Pow(Linspace(0, SCALE, release_samples, i), config.release_curve))
    IN  IF \/ do_attack /\ AssignRaises(attack_len, attack_samples)
           \/ do_release /\ AssignRaises(remaining, Min(remaining, release_samples))
        THEN Raised
        ELSE [status |-> "returned",
              envelope |-> [k \in 1..total_samples |->
                    IF do_attack /\ k <= pos1
                    THEN Pow(Linspace(0, SCALE, attack_samples, k - 1), config.attack_curve)
                    ELSE IF do_decay /\ k > pos1 /\ k <= pos2
                    THEN SCALE - FMul(SCALE - config.sustain,
                                      Pow(Linspace(0, SCALE, decay_samples, k - 1 - pos1),
                                          config.decay_curve))
                    ELSE IF do_sustain /\ k > pos2 /\ k <= pos3 THEN config.sustain
                    ELSE IF do_release /\ k > pos3
                    THEN ReleaseAt(IF release_samples = 1 THEN 0 ELSE k - 1 - pos3)
                    ELSE 0],
              seg |-> [attack |-> Seg(do_attack, 0, attack_len),
                       decay |-> Seg(do_decay, pos1, pos2 - pos1),
                       sustain |-> Seg(do_sustain, pos2, pos3 - pos2),
                       release |-> Seg(do_release, pos3, remaining)]]

Pending == [status |-> "pending", envelope |-> <<>>,
            seg |-> [attack |-> NoSeg, decay |-> NoSeg, sustain |-> NoSeg, release |-> NoSeg]]

(* The requests a caller can make: adsr(num_samples, sample_rate, config)   *)
(* of the merged and of the legacy generator (whose EnvelopeConfig has no   *)
(* curve fields), and generate(config, duration) of audio_util.py.          *)
AdsrRequests ==
    [impl : {"merged"}, num_samples : 0..MaxSamples, duration_ms : {0},
     sample_rate : SampleRates, config : EnvelopeConfigs, result : {Pending}]

AdsrLegacyRequests ==
    [impl : {"legacy"}, num_samples : 0..MaxSamples, duration_ms : {0},
     sample_rate : SampleRates,
     config : {c \in EnvelopeConfigs :
                  c.attack_curve = 1 /\ c.decay_curve = 1 /\ c.release_curve = 1},
     result : {Pending}]

EnvelopeGenerateRequests ==
    [impl : {"util"}, num_samples : {0}, duration_ms : 0..MaxMs,
     sample_rate : SampleRates, config : EnvelopeConfigs, result : {Pending}]

NoEnv == [impl |-> "none", num_samples |-> 0, duration_ms |-> 0, sample_rate |-> 1000,
          config |-> [attack |-> 0, decay |-> 0, release |-> 0, sustain |-> 0,
                      attack_curve |-> 1, decay_curve |-> 1, release_curve |-> 1],
          result |-> Pending]

(* the merged generator's adsr runs *)
CallAdsr ==
    /\ env.impl = "merged" /\ env.result.status = "pending"
    /\ env' = [env EXCEPT !.result = Adsr(env.num_samples, env.sample_rate, env.config)]
    /\ UNCHANGED <<clip, mixer, piano, pitch, note, analysis, disk, batch, facade>>

(* generate_audio.py's adsr runs *)
CallAdsrLegacy ==
    /\ env.impl = "legacy" /\ env.result.status = "pending"
    /\ env' = [env EXCEPT !.result = AdsrLegacy(env.num_samples, env.sample_rate, env.config)]
    /\ UNCHANGED <<clip, mixer, piano, pitch, note, analysis, disk, batch, facade>>

(* audio_util.py's generate runs *)
CallEnvelopeGenerate ==
    /\ env.impl = "util" /\ env.result.status = "pending"
    /\ env' = [env EXCEPT !.result =
                   EnvelopeGenerate(env.duration_ms, env.sample_rate, env.config)]
    /\ UNCHANGED <<clip, mixer, piano, pitch, note, analysis, disk, batch, facade>>

----------------------------------------------------------------------------
(* AudioProcessor.soft_clip.  A buffer is a sequence of amplitudes.          *)

(* soft_clip with the factor threshold left out of the clipped branch *)
SoftClipSampleUnscaled(x, threshold) ==
    IF Abs(x) > threshold
    THEN Sign(x) * Tanh(FDiv(Abs(x), threshold))
    ELSE x

(* audio/processors/audio_processor.py and generate_audio.py:                *)
(* result[mask] = threshold * sign(x) * tanh(|x| / threshold), mask = |x| > threshold *)
SoftClipSample(x, threshold) ==
    IF Abs(x) > threshold
    THEN Sign(x) * FMul(threshold, Tanh(FDiv(Abs(x), threshold)))
    ELSE x

(* audio_util.py: result[mask] = threshold * tanh(x / threshold) *)
SoftClipSampleUtil(x, threshold) ==
    IF Abs(x) > threshold
    THEN SMul(threshold, Tanh(SDiv(x, threshold)))
    ELSE x

SoftClip(audio, threshold) ==
    [i \in 1..Len(audio) |-> SoftClipSample(audio[i], threshold)]

SoftClipUtil(audio, threshold) ==
    [i \in 1..Len(audio) |-> SoftClipSampleUtil(audio[i], threshold)]

SeqsUpTo(S, n) == UNION { [1..k -> S] : k \in 0..n }

Tenths(k) == (k * SCALE) \div 10

(* the samples soft_clip is tried on: below, at, just above and far above   *)
(* each threshold, of both signs                                            *)
ClipSamples ==
    {0, Tenths(4), -Tenths(4), Tenths(5), Tenths(5) + 1, Tenths(8), -Tenths(8),
     Tenths(8) + 1, Tenths(9), Tenths(9) + 1, -Tenths(9) - 1, Tenths(12),
     -Tenths(30), Tenths(100)}
Thresholds == {Tenths(5), Tenths(8), Tenths(9), Tenths(15)}

ClipRequests ==
    [impl : {"processor", "util"}, audio : SeqsUpTo(ClipSamples, MaxBufLen),
     threshold : Thresholds, status : {"pending"}, result : {<<>>}]

NoClip == [impl |-> "none", audio |-> <<>>, threshold |-> Tenths(8),
           status |-> "pending", result |-> <<>>]

(* AudioProcessor.soft_clip of audio_processor.py runs *)
CallSoftClip ==
    /\ clip.impl = "processor" /\ clip.status = "pending"
    /\ clip' = [clip EXCEPT !.status = "returned",
                            !.result = SoftClip(clip.audio, clip.threshold)]
    /\ UNCHANGED <<env, mixer, piano, pitch, note, analysis, disk, batch, facade>>

(* AudioProcessor.soft_clip of audio_util.py runs *)
CallSoftClipUtil ==
    /\ clip.impl = "util" /\ clip.status = "pending"
    /\ clip' = [clip EXCEPT !.status = "returned",
                            !.result = SoftClipUtil(clip.audio, clip.threshold)]
    /\ UNCHANGED <<env, mixer, piano, pitch, note, analysis, disk, batch, facade>>

----------------------------------------------------------------------------
(* Mixing.  ChordMixer of audio/generators/chord_mixer.py on top of         *)
(* AudioProcessor.mix of audio/processors/audio_processor.py ("merged"),    *)
(* and ChordMixer of audio_util.py ("util").  A chord optimization config   *)
(* is [enabled, dynamic_compression, frequency_separation].                 *)

RECURSIVE MaxLength(_)
MaxLength(audios) ==
    IF Len(audios) = 0 THEN 0 ELSE Max(Len(Head(audios)), MaxLength(Tail(audios)))

(* an alignment that pads a short buffer in front, moving it to the end *)
AlignAtEnd(audios, max_length) ==
    [a \in 1..Len(audios) |->
        [i \in 1..max_length |->
            IF i > max_length - Len(audios[a])
            THEN audios[a][i - (max_length - Len(audios[a]))] ELSE 0]]

(* np.pad(audio, (0, max_length - len(audio))) / audio[:max_length] *)
Align(audios, max_length) ==
    [a \in 1..Len(audios) |->
        [i \in 1..max_length |-> IF i <= Len(audios[a]) THEN audios[a][i] ELSE 0]]

(* np.sum(aligned_audios, axis=0)[i] *)
RECURSIVE SumAt(_, _, _)
SumAt(aligned, a, i) ==
    IF a = 0 THEN 0 ELSE aligned[a][i] + SumAt(aligned, a - 1, i)

(* AudioProcessor.mix(audios, volumes=None, use_smart_mixing) *)
ProcessorMix(audios, use_smart_mixing) ==
    IF Len(audios) = 0 THEN <<>>
    ELSE IF Len(audios) = 1 THEN audios[1]
    ELSE LET max_length == MaxLength(audios)
             aligned_audios == Align(audios, max_length)
             mixed == [i \in 1..max_length |-> SumAt(aligned_audios, Len(aligned_audios), i)]
             num_notes == Len(aligned_audios)
         IN  IF use_smart_mixing
             THEN SoftClip([i \in 1..max_length |-> SDiv(mixed[i], Sqrt(num_notes))],
                           Tenths(9))
             ELSE mixed

(* ChordMixer.mix without the early return for a single buffer *)
ChordMixerMixNoPassthrough(config, audios, midi_notes) ==
    IF Len(audios) = 0 THEN <<>>
    ELSE SoftClip(ProcessorMix(audios, config.dynamic_compression), Tenths(9))

(* ChordMixer.mix(audios, midi_notes) of chord_mixer.py *)
ChordMixerMix(config, audios, midi_notes) ==
    IF Len(audios) = 0 THEN <<>>
    ELSE IF Len(audios) = 1 THEN audios[1]
    ELSE SoftClip(ProcessorMix(audios, config.dynamic_compression), Tenths(9))

(* ChordMixer._apply_compression of audio_util.py: an envelope follower     *)
(* (attack 5 ms, release 50 ms) and a 3:1 gain reduction above 0.6          *)
RECURSIVE Follower(_, _, _, _)
Follower(audio, i, attack_samples, release_samples) ==
    IF i = 1 THEN Abs(audio[1])
    ELSE LET prev == Follower(audio, i - 1, attack_samples, release_samples)
             cur == Abs(audio[i])
             coef == IF cur > prev
                     THEN SCALE - ExpNeg(SCALE \div attack_samples)
                     ELSE SCALE - ExpNeg(SCALE \div release_samples)
         IN  prev + SMul(coef, cur - prev)

ApplyCompression(audio, sample_rate) ==
    LET threshold == Tenths(6)
        ratio == 3
        attack_samples == (5 * sample_rate) \div 1000
        release_samples == (50 * sample_rate) \div 1000
        envelope == [i \in 1..Len(audio) |->
                        Follower(audio, i, attack_samples, release_samples)]
        gain == [i \in 1..Len(audio) |->
                    IF envelope[i] > threshold
                    THEN FDiv(threshold + (envelope[i] - threshold) \div ratio, envelope[i])
                    ELSE SCALE]
    IN  [i \in 1..Len(audio) |-> SMul(audio[i], gain[i])]

(* ChordMixer._apply_frequency_separation of audio_util.py leaves a voice   *)
(* with 48 <= midi <= 72 as it is; the Butterworth filters it applies to    *)
(* the other voices are outside the model, which mixes only such voices     *)
(* (see UtilMixable).                                                       *)
ApplyFrequencySeparation(audios, midi_notes) == audios

UtilMixable(midi_notes) ==
    midi_notes.given => \A k \in 1..Len(midi_notes.notes) :
                            midi_notes.notes[k] >= 48 /\ midi_notes.notes[k] <= 72

(* ChordMixer.mix(note_audios, midi_notes=None) of audio_util.py *)
UtilChordMixerMix(config, sample_rate, note_audios, midi_notes) ==
    IF Len(note_audios) = 0 THEN <<>>
    ELSE IF Len(note_audios) = 1 THEN note_audios[1]
    ELSE LET max_length == MaxLength(note_audios)
             aligned == Align(note_audios, max_length)
             separated == IF config.enabled /\ config.frequency_separation
                             /\ midi_notes.given
                          THEN ApplyFrequencySeparation(aligned, midi_notes.notes)
                          ELSE aligned
             num_notes == Len(separated)
             mixed == [i \in 1..max_length |->
                          SDiv(SumAt(separated, num_notes, i), Sqrt(num_notes))]
             compressed == IF config.enabled /\ config.dynamic_compression
                           THEN ApplyCompression(mixed, sample_rate)
                           ELSE mixed
         IN  SoftClipUtil(compressed, Tenths(9))

MixSamples == {Tenths(5), -Tenths(12)}
MixBuffers == SeqsUpTo(MixSamples, MaxBufLen)
ChordOptimizationConfigs ==
    [enabled : BOOLEAN, dynamic_compression : BOOLEAN, frequency_separation : BOOLEAN]

(* the notes a caller names for the voices of a chord: C4 E4 G4 C5 ... *)
ChordNote(k) == IF k % 4 = 1 THEN 60 ELSE IF k % 4 = 2 THEN 64
                ELSE IF k % 4 = 3 THEN 67 ELSE 72
NotesFor(audios) == [given |-> TRUE, notes |-> [k \in 1..Len(audios) |-> ChordNote(k)]]
NoNotes == [given |-> FALSE, notes |-> <<>>]

(* mix(audios, midi_notes) requests: the merged mixer is always given the   *)
(* notes (which it ignores), audio_util.py's may be called without them     *)
ChordMixerRequests ==
    { [impl |-> "merged", config |-> c, sample_rate |-> 44100, audios |-> a,
       midi_notes |-> NotesFor(a), results |-> <<>>] :
        c \in ChordOptimizationConfigs, a \in SeqsUpTo(MixBuffers, MaxVoices) }

UtilChordMixerRequests ==
    { [impl |-> "util", config |-> c, sample_rate |-> 44100, audios |-> a,
       midi_notes |-> IF g THEN NotesFor(a) ELSE NoNotes, results |-> <<>>] :
        c \in ChordOptimizationConfigs, a \in SeqsUpTo(MixBuffers, MaxVoices),
        g \in BOOLEAN }

NoMixer == [impl |-> "none",
            config |-> [enabled |-> TRUE, dynamic_compression |-> TRUE,
                        frequency_separation |-> TRUE],
            sample_rate |-> 44100, audios |-> <<>>, midi_notes |-> NoNotes,
            results |-> <<>>]

(* ChordMixer.mix of chord_mixer.py runs (again) on the request *)
CallMix ==
    /\ mixer.impl = "merged" /\ Len(mixer.results) < MaxCalls
    /\ mixer' = [mixer EXCEPT !.results =
                    Append(@, ChordMixerMix(mixer.config, mixer.audios,
                                            mixer.midi_notes.notes))]
    /\ UNCHANGED <<env, clip, piano, pitch, note, analysis, disk, batch, facade>>

(* ChordMixer.mix of audio_util.py runs (again) on the request *)
CallMixUtil ==
    /\ mixer.impl = "util" /\ Len(mixer.results) < MaxCalls
    /\ UtilMixable(mixer.midi_notes)
    /\ mixer' = [mixer EXCEPT !.results =
                    Append(@, UtilChordMixerMix(mixer.config, mixer.sample_rate,
                                                mixer.audios, mixer.midi_notes))]
    /\ UNCHANGED <<env, clip, piano, pitch, note, analysis, disk, batch, facade>>

----------------------------------------------------------------------------
(* Pitch: core/constants.py and generate_audio.py                           *)
(*                                                                          *)
(* A frequency is kept as a binary floating-point number would keep it: a   *)
(* mantissa on the SCALE grid and a power-of-two exponent, so that doubling *)
(* is exact and a semitone is one step in the table of 2^(r/12).            *)

A4_FREQUENCY == 440
A4_MIDI == 69

(* 2.0 ** (r / 12.0) for r = 0..11, on the SCALE grid *)
SemitoneRatio ==
    <<10000, 10595, 11225, 11892, 12599, 13348,
      14142, 14983, 15874, 16818, 17818, 18877>>

(* midi_to_frequency with the exponent floor-divided, as (midi - 69) // 12  *)
(* would compute it                                                         *)
MidiToFrequencyFloorDiv(midi) ==
    LET k == midi - A4_MIDI
    IN  [mant |-> A4_FREQUENCY * SemitoneRatio[1], exp |-> k \div 12]

(* midi_to_frequency(midi) of core/constants.py:                            *)
(* A4_FREQUENCY * (2.0 ** ((midi - A4_MIDI) / 12.0))                        *)
MidiToFrequency(midi) ==
    LET k == midi - A4_MIDI
    IN  [mant |-> A4_FREQUENCY * SemitoneRatio[(k % 12) + 1], exp |-> k \div 12]

(* midi_to_frequency(midi) of generate_audio.py:                            *)
(* 440.0 * (2.0 ** ((midi - 69) / 12.0))                                    *)
MidiToFrequencyLegacy(midi) ==
    LET k == midi - 69
    IN  [mant |-> 440 * SemitoneRatio[(k % 12) + 1], exp |-> k \div 12]

(* the frequency in Hz on the SCALE grid *)
FreqGrid(f) ==
    IF f.exp >= 0 THEN f.mant * (2 ^ f.exp) ELSE f.mant \div (2 ^ (0 - f.exp))

Double(f) == [f EXCEPT !.exp = @ + 1]

ValidMidi == 0..127

(* the notes a caller looks up together: the note, the semitone above it    *)
(* and the octave above it                                                  *)
Lookups(midi) == {midi, midi + 1, midi + 12} \cap ValidMidi

NoFrequencies == [m \in {} |-> 0]

PitchRequests ==
    [impl : {"merged", "legacy"}, midi : ValidMidi, status : {"pending"},
     frequency : {NoFrequencies}]

NoPitch == [impl |-> "none", midi |-> A4_MIDI, status |-> "pending",
            frequency |-> NoFrequencies]

(* midi_to_frequency of core/constants.py is evaluated on the lookups *)
CallMidiToFrequency ==
    /\ pitch.impl = "merged" /\ pitch.status = "pending"
    /\ pitch' = [pitch EXCEPT !.status = "returned",
                              !.frequency = [m \in Lookups(pitch.midi) |->
                                                MidiToFrequency(m)]]
    /\ UNCHANGED <<env, clip, mixer, piano, note, analysis, disk, batch, facade>>

(* midi_to_frequency of generate_audio.py is evaluated on the lookups *)
CallMidiToFrequencyLegacy ==
    /\ pitch.impl = "legacy" /\ pitch.status = "pending"
    /\ pitch' = [pitch EXCEPT !.status = "returned",
                              !.frequency = [m \in Lookups(pitch.midi) |->
                                                MidiToFrequencyLegacy(m)]]
    /\ UNCHANGED <<env, clip, mixer, piano, note, analysis, disk, batch, facade>>

(* the integers a caller may hand to midi_to_frequency: the MIDI range and  *)
(* a margin on either side of it                                            *)
AnyMidi == (0 - MidiMargin)..(127 + MidiMargin)

(* AudioGenerator._midi_to_frequency of generators/base.py *)
GeneratorMidiToFrequency(midi) == MidiToFrequency(midi)

AnyPitchRequests ==
    [impl : {"function", "generator"}, midi : AnyMidi, status : {"pending"},
     frequency : {NoFrequencies}]

(* midi_to_frequency of core/constants.py is called with any integer: it    *)
(* has no statement that could raise                                        *)
CallMidiToFrequencyAny ==
    /\ pitch.impl = "function" /\ pitch.status = "pending"
    /\ pitch' = [pitch EXCEPT !.status = "returned",
                              !.frequency = [m \in {pitch.midi} |->
                                                MidiToFrequency(m)]]
    /\ UNCHANGED <<env, clip, mixer, piano, note, analysis, disk, batch, facade>>

(* a generator's _midi_to_frequency is called with any integer *)
CallGeneratorMidiToFrequency ==
    /\ pitch.impl = "generator" /\ pitch.status = "pending"
    /\ pitch' = [pitch EXCEPT !.status = "returned",
                              !.frequency = [m \in {pitch.midi} |->
                                                GeneratorMidiToFrequency(m)]]
    /\ UNCHANGED <<env, clip, mixer, piano, note, analysis, disk, batch, facade>>

----------------------------------------------------------------------------
(* Piano generator: generators/piano.py and audio_util.py                   *)

(* the values random.uniform(0, 2 * pi) may draw, by index *)
Phases == 0..(NumPhases - 1)

EmptyCache == [k \in {} |-> 0]

(* cache_key = (frequency, harmonic) of piano.py *)
CacheKey(frequency, harmonic) == <<frequency, harmonic>>

(* cache_key = f"{frequency:.2f}_{harmonic}" of audio_util.py *)
CacheKeyUtil(frequency, harmonic) ==
    <<(FreqGrid(frequency) + (SCALE \div 200)) \div (SCALE \div 100), harmonic>>

(* a lookup that draws a phase on every call *)
GetRandomPhaseRedraw(phase_cache, cache_key, drawn) ==
    [phase_cache |-> [k \in DOMAIN phase_cache \cup {cache_key} |->
                         IF k = cache_key THEN drawn ELSE phase_cache[k]],
     phase |-> drawn, drew |-> TRUE]

(* _get_random_phase: the cache after the lookup and the phase returned;    *)
(* drawn is what random.uniform gives if it is asked                        *)
GetRandomPhase(phase_cache, cache_key, drawn) ==
    IF cache_key \notin DOMAIN phase_cache
    THEN [phase_cache |-> [k \in DOMAIN phase_cache \cup {cache_key} |->
                              IF k = cache_key THEN drawn ELSE phase_cache[k]],
          phase |-> drawn, drew |-> TRUE]
    ELSE [phase_cache |-> phase_cache, phase |-> phase_cache[cache_key],
          drew |-> FALSE]

(* the partials the model looks up: the first two of C4 and of E4 *)
PhaseFrequencies == {MidiToFrequency(60), MidiToFrequency(64)}
PhaseHarmonics == {1, 2}

NoLookup == [op |-> "none", key |-> <<>>, phase |-> 0, drew |-> FALSE]
NoChord == [midi_notes |-> <<>>, note_len |-> 0, status |-> "idle",
            audio |-> <<>>, rendered |-> 0]

ChordConfig == [enabled |-> TRUE, dynamic_compression |-> TRUE,
                frequency_separation |-> TRUE]

(* a generator as its constructor leaves it *)
NewPiano(impl) ==
    [impl |-> impl, config |-> ChordConfig, sample_rate |-> 44100,
     phase_cache |-> EmptyCache, last |-> NoLookup, chord |-> NoChord]

NoPiano == NewPiano("none")

(* EnhancedPianoGenerator._get_random_phase of piano.py *)
CallGetRandomPhase ==
    /\ piano.impl = "merged"
    /\ \E frequency \in PhaseFrequencies, harmonic \in PhaseHarmonics,
          drawn \in Phases :
          LET key == CacheKey(frequency, harmonic)
              r == GetRandomPhase(piano.phase_cache, key, drawn)
          IN  piano' = [piano EXCEPT
                           !.phase_cache = r.phase_cache,
                           !.last = [op |-> "lookup", key |-> key,
                                     phase |-> r.phase, drew |-> r.drew]]
    /\ UNCHANGED <<env, clip, mixer, pitch, note, analysis, disk, batch, facade>>

(* EnhancedPianoGenerator._get_random_phase of audio_util.py *)
CallGetRandomPhaseUtil ==
    /\ piano.impl = "util" /\ piano.chord.status = "idle"
    /\ \E frequency \in PhaseFrequencies, harmonic \in PhaseHarmonics,
          drawn \in Phases :
          LET key == CacheKeyUtil(frequency, harmonic)
              r == GetRandomPhase(piano.phase_cache, key, drawn)
          IN  piano' = [piano EXCEPT
                           !.phase_cache = r.phase_cache,
                           !.last = [op |-> "lookup", key |-> key,
                                     phase |-> r.phase, drew |-> r.drew]]
    /\ UNCHANGED <<env, clip, mixer, pitch, note, analysis, disk, batch, facade>>

(* EnhancedPianoGenerator.clear_phase_cache of piano.py *)
ClearPhaseCache ==
    /\ piano.impl = "merged"
    /\ piano' = [piano EXCEPT !.phase_cache = EmptyCache,
                              !.last = [NoLookup EXCEPT !.op = "clear"]]
    /\ UNCHANGED <<env, clip, mixer, pitch, note, analysis, disk, batch, facade>>

(* AudioProcessor.normalize of audio_util.py: np.max(np.abs(audio)) *)
RECURSIVE PeakOf(_)
PeakOf(audio) ==
    IF Len(audio) = 0 THEN 0 ELSE Max(Abs(Head(audio)), PeakOf(Tail(audio)))

Normalize(audio, target_peak) ==
    LET max_val == PeakOf(audio)
    IN  IF max_val > 0
        THEN [i \in 1..Len(audio) |-> SMul(audio[i], FDiv(target_peak, max_val))]
        ELSE audio

(* generate_chord that renders and mixes whatever list it is given: the     *)
(* maximum of an empty array does not exist and np.max raises               *)
GenerateChordNoEarlyReturn(config, sample_rate, midi_notes, note_audios) ==
    LET mixed == UtilChordMixerMix(config, sample_rate, note_audios,
                                   [given |-> TRUE, notes |-> midi_notes])
    IN  IF Len(mixed) = 0
        THEN [status |-> "raised", audio |-> <<>>, rendered |-> Len(midi_notes)]
        ELSE [status |-> "returned", audio |-> Normalize(mixed, Tenths(9)),
              rendered |-> Len(midi_notes)]

(* EnhancedPianoGenerator.generate_chord(midi_notes, apply_reverb=False) of *)
(* audio_util.py; note_audios[k] is what generate_note renders for note k   *)
GenerateChord(config, sample_rate, midi_notes, note_audios) ==
    IF Len(midi_notes) = 0
    THEN [status |-> "returned", audio |-> <<>>, rendered |-> 0]
    ELSE LET mixed == UtilChordMixerMix(config, sample_rate, note_audios,
                                        [given |-> TRUE, notes |-> midi_notes])
         IN  IF Len(mixed) = 0
             THEN [status |-> "raised", audio |-> <<>>, rendered |-> Len(midi_notes)]
             ELSE [status |-> "returned", audio |-> Normalize(mixed, Tenths(9)),
                   rendered |-> Len(midi_notes)]

ChordNoteLists == { [k \in 1..v |-> ChordNote(k)] : v \in 0..MaxVoices }

(* generate_chord requests on a fresh generator whose chord optimization    *)
(* does not use random phases, so that rendering leaves the phase cache as  *)
(* it is; every note renders note_len samples                               *)
ChordRequests ==
    { [NewPiano("util") EXCEPT
          !.config = c,
          !.chord = [midi_notes |-> n, note_len |-> l, status |-> "pending",
                     audio |-> <<>>, rendered |-> 0]] :
        c \in ChordOptimizationConfigs, n \in ChordNoteLists, l \in 1..MaxBufLen }

(* generate_chord runs: generate_note renders some buffer for every note *)
CallGenerateChord ==
    /\ piano.impl = "util" /\ piano.chord.status = "pending"
    /\ \E note_audios \in [1..Len(piano.chord.midi_notes) ->
                             [1..piano.chord.note_len -> MixSamples]] :
          LET r == GenerateChord(piano.config, piano.sample_rate,
                                 piano.chord.midi_notes, note_audios)
          IN  piano' = [piano EXCEPT !.chord.status = r.status,
                                     !.chord.audio = r.audio,
                                     !.chord.rendered = r.rendered]
    /\ UNCHANGED <<env, clip, mixer, pitch, note, analysis, disk, batch, facade>>

(* EnhancedPianoGenerator.clear_phase_cache of audio_util.py *)
ClearPhaseCacheUtil ==
    /\ piano.impl = "util" /\ piano.chord.status = "idle"
    /\ piano' = [piano EXCEPT !.phase_cache = EmptyCache,
                              !.last = [NoLookup EXCEPT !.op = "clear"]]
    /\ UNCHANGED <<env, clip, mixer, pitch, note, analysis, disk, batch, facade>>

----------------------------------------------------------------------------
(* Note rendering: generators/piano.py, generators/base.py, audio_util.py    *)
(* and generate_audio_v2.py                                                 *)

NoNote == [op |-> "none", status |-> "pending"]

Hundredths(k) == k * (SCALE \div 100)

(* HarmonicConfig(harmonic_number, amplitude, decay_rate); the amplitude is *)
(* given in hundredths and the decay rate in tenths                         *)
HarmonicConfig(harmonic_number, amplitude, decay_rate) ==
    [harmonic_number |-> harmonic_number, amplitude |-> Hundredths(amplitude),
     decay_rate |-> Tenths(decay_rate)]

(* the table with the low band ending below 48 *)
GetDynamicHarmonicsLowBelow48(midi) ==
    IF midi < 48
    THEN << HarmonicConfig(1, 100, 15), HarmonicConfig(2, 75, 20),
            HarmonicConfig(3, 50, 25),  HarmonicConfig(4, 30, 30),
            HarmonicConfig(5, 18, 38),  HarmonicConfig(6, 10, 45),
            HarmonicConfig(7, 5, 55),   HarmonicConfig(8, 2, 65) >>
    ELSE IF midi <= 72
    THEN << HarmonicConfig(1, 100, 20), HarmonicConfig(2, 60, 25),
            HarmonicConfig(3, 35, 30),  HarmonicConfig(4, 20, 35),
            HarmonicConfig(5, 12, 40),  HarmonicConfig(6, 8, 45),
            HarmonicConfig(7, 5, 50),   HarmonicConfig(8, 3, 55) >>
    ELSE << HarmonicConfig(1, 100, 25), HarmonicConfig(2, 45, 30),
            HarmonicConfig(3, 25, 38),  HarmonicConfig(4, 12, 45),
            HarmonicConfig(5, 6, 55),   HarmonicConfig(6, 3, 65) >>

(* EnhancedPianoGenerator._get_dynamic_harmonics of piano.py *)
GetDynamicHarmonics(midi) ==
    IF midi <= 48
    THEN << HarmonicConfig(1, 100, 15), HarmonicConfig(2, 75, 20),
            HarmonicConfig(3, 50, 25),  HarmonicConfig(4, 30, 30),
            HarmonicConfig(5, 18, 38),  HarmonicConfig(6, 10, 45),
            HarmonicConfig(7, 5, 55),   HarmonicConfig(8, 2, 65) >>
    ELSE IF midi <= 72
    THEN << HarmonicConfig(1, 100, 20), HarmonicConfig(2, 60, 25),
            HarmonicConfig(3, 35, 30),  HarmonicConfig(4, 20, 35),
            HarmonicConfig(5, 12, 40),  HarmonicConfig(6, 8, 45),
            HarmonicConfig(7, 5, 50),   HarmonicConfig(8, 3, 55) >>
    ELSE << HarmonicConfig(1, 100, 25), HarmonicConfig(2, 45, 30),
            HarmonicConfig(3, 25, 38),  HarmonicConfig(4, 12, 45),
            HarmonicConfig(5, 6, 55),   HarmonicConfig(6, 3, 65) >>

(* a caller asks for the tables of two pitches *)
HarmonicsRequests ==
    [op : {"harmonics"}, status : {"pending"}, midi : ValidMidi,
     other : ValidMidi, tables : {<<>>}]

(* _get_dynamic_harmonics is called for both pitches *)
CallGetDynamicHarmonics ==
    /\ note.op = "harmonics" /\ note.status = "pending"
    /\ note' = [note EXCEPT !.status = "returned",
                            !.tables = << GetDynamicHarmonics(note.midi),
                                          GetDynamicHarmonics(note.other) >>]
    /\ UNCHANGED <<env, clip, mixer, piano, pitch, analysis, disk, batch, facade>>

(* ---- harmonic synthesis ---- *)

(* chord_context as generate receives it: None, or a list of the notes      *)
(* sounding together with midi                                              *)
ChordContexts(midi) ==
    { [given |-> FALSE, notes |-> <<>>], [given |-> TRUE, notes |-> <<>>],
      [given |-> TRUE, notes |-> <<midi>>],
      [given |-> TRUE, notes |-> <<midi, midi + 4>>] }

(* is_chord = chord_context and len(chord_context) > 1 *)
IsChord(chord_context) == chord_context.given /\ Len(chord_context.notes) > 1

(* sample_rate / 2 in Hz on the SCALE grid *)
Nyquist(sample_rate) == (sample_rate * SCALE) \div 2

(* one wave added to the buffer: amplitude * sin(2 pi freq t + phase) *)
Wave(harmonic_number, amplitude, freq, phase) ==
    [harmonic_number |-> harmonic_number, amplitude |-> amplitude,
     freq |-> freq, phase |-> phase]

(* the harmonics of the table whose phase piano.py looks up in this call *)
LookedUp(self, base_freq, harmonics, use_random_phase) ==
    IF use_random_phase /\ self.config.use_random_phase
    THEN { harmonics[i].harmonic_number : i \in
             { j \in 1..Len(harmonics) :
                 FreqGrid(base_freq) * harmonics[j].harmonic_number
                     <= Nyquist(self.sample_rate) } }
    ELSE {}

(* of those, the ones random.uniform is asked for *)
Undrawn(self, base_freq, harmonics, use_random_phase) ==
    { n \in LookedUp(self, base_freq, harmonics, use_random_phase) :
        CacheKey(base_freq, n) \notin DOMAIN self.phase_cache }

(* the loop of _generate_harmonics of piano.py from harmonic i on; acc is    *)
(* the phase cache and the waves added so far                               *)
RECURSIVE GenerateHarmonicsFrom(_, _, _, _, _, _, _)
GenerateHarmonicsFrom(self, i, acc, base_freq, harmonics, use_random_phase, drawn) ==
    IF i > Len(harmonics)
    THEN acc
    ELSE LET harmonic == harmonics[i]
             freq == FreqGrid(base_freq) * harmonic.harmonic_number
         IN  IF freq > Nyquist(self.sample_rate)
             THEN GenerateHarmonicsFrom(self, i + 1, acc, base_freq, harmonics,
                                        use_random_phase, drawn)
             ELSE LET r == IF use_random_phase /\ self.config.use_random_phase
                           THEN GetRandomPhase(acc.phase_cache,
                                    CacheKey(base_freq, harmonic.harmonic_number),
                                    drawn[harmonic.harmonic_number])
                           ELSE [phase_cache |-> acc.phase_cache, phase |-> 0,
                                 drew |-> FALSE]
                  IN  GenerateHarmonicsFrom(self, i + 1,
                          [phase_cache |-> r.phase_cache,
                           audio |-> Append(acc.audio,
                                        Wave(harmonic.harmonic_number,
                                             harmonic.amplitude, freq, r.phase))],
                          base_freq, harmonics, use_random_phase, drawn)

(* EnhancedPianoGenerator._generate_harmonics of piano.py: the phase cache  *)
(* after the call and the waves that make up the buffer returned            *)
GenerateHarmonics(self, base_freq, harmonics, use_random_phase, drawn) ==
    GenerateHarmonicsFrom(self, 1, [phase_cache |-> self.phase_cache, audio |-> <<>>],
                          base_freq, harmonics, use_random_phase, drawn)

(* _get_harmonics_config of audio_util.py: (n, base_amplitude) pairs *)
GetHarmonicsConfig(midi) ==
    IF midi > 84
    THEN << <<1, Hundredths(100)>>, <<2, Hundredths(30)>>, <<3, Hundredths(10)>>,
            <<4, Hundredths(5)>> >>
    ELSE IF midi > 60
    THEN << <<1, Hundredths(100)>>, <<2, Hundredths(50)>>, <<3, Hundredths(25)>>,
            <<4, Hundredths(15)>>, <<5, Hundredths(8)>>, <<6, Hundredths(4)>> >>
    ELSE IF midi > 40
    THEN << <<1, Hundredths(100)>>, <<2, Hundredths(60)>>, <<3, Hundredths(35)>>,
            <<4, Hundredths(20)>>, <<5, Hundredths(12)>>, <<6, Hundredths(8)>>,
            <<7, Hundredths(4)>> >>
    ELSE << <<1, Hundredths(100)>>, <<2, Hundredths(70)>>, <<3, Hundredths(45)>>,
            <<4, Hundredths(30)>>, <<5, Hundredths(20)>>, <<6, Hundredths(12)>>,
            <<7, Hundredths(8)>>, <<8, Hundredths(4)>> >>

(* the harmonics whose phase audio_util.py has random.uniform draw *)
UndrawnUtil(self, frequency, midi) ==
    IF self.config.enabled /\ self.config.use_random_phase
    THEN { n \in { GetHarmonicsConfig(midi)[i][1] :
                     i \in 1..Len(GetHarmonicsConfig(midi)) } :
             CacheKeyUtil(frequency, n) \notin DOMAIN self.phase_cache }
    ELSE {}

(* the loop of _generate_harmonics of audio_util.py from harmonic i on *)
RECURSIVE GenerateHarmonicsUtilFrom(_, _, _, _, _, _, _)
GenerateHarmonicsUtilFrom(self, i, acc, frequency, midi, is_chord, drawn) ==
    LET chord_opt == self.config
        harmonics_config == GetHarmonicsConfig(midi)
        harmonic_factor == IF is_chord /\ chord_opt.enabled
                           THEN chord_opt.harmonic_reduction ELSE SCALE
    IN  IF i > Len(harmonics_config)
        THEN acc
        ELSE LET n == harmonics_config[i][1]
                 amplitude == FMul(harmonics_config[i][2], harmonic_factor)
                 r == IF chord_opt.enabled /\ chord_opt.use_random_phase
                      THEN GetRandomPhase(acc.phase_cache,
                                          CacheKeyUtil(frequency, n), drawn[n])
                      ELSE [phase_cache |-> acc.phase_cache, phase |-> 0,
                            drew |-> FALSE]
                 harmonic_freq == FreqGrid(frequency) * n
             IN  GenerateHarmonicsUtilFrom(self, i + 1,
                     [phase_cache |-> r.phase_cache,
                      audio |-> Append(acc.audio,
                                       Wave(n, amplitude, harmonic_freq, r.phase))],
                     frequency, midi, is_chord, drawn)

(* EnhancedPianoGenerator._generate_harmonics of audio_util.py; the wave of *)
(* harmonic n sounds at harmonic_freq times its inharmonicity, which is at  *)
(* least 1                                                                  *)
GenerateHarmonicsUtil(self, frequency, midi, is_chord, drawn) ==
    GenerateHarmonicsUtilFrom(self, 1,
        [phase_cache |-> self.phase_cache, audio |-> <<>>],
        frequency, midi, is_chord, drawn)

(* EnhancedPianoConfig.harmonics of generate_audio_v2.py *)
HarmonicsV2 ==
    << HarmonicConfig(1, 100, 20), HarmonicConfig(2, 60, 25),
       HarmonicConfig(3, 35, 30),  HarmonicConfig(4, 20, 35),
       HarmonicConfig(5, 12, 40),  HarmonicConfig(6, 8, 45),
       HarmonicConfig(7, 5, 50),   HarmonicConfig(8, 3, 55),
       HarmonicConfig(9, 2, 60),   HarmonicConfig(10, 1, 65) >>

(* the loop of _generate_harmonics of generate_audio_v2.py *)
RECURSIVE GenerateHarmonicsV2From(_, _, _, _)
GenerateHarmonicsV2From(self, i, audio, frequency) ==
    IF i > Len(HarmonicsV2)
    THEN audio
    ELSE LET harmonic == HarmonicsV2[i]
             harmonic_freq == FreqGrid(frequency) * harmonic.harmonic_number
         IN  GenerateHarmonicsV2From(self, i + 1,
                 IF harmonic_freq < Nyquist(self.sample_rate)
                 THEN Append(audio, Wave(harmonic.harmonic_number,
                                         harmonic.amplitude, harmonic_freq, 0))
                 ELSE audio,
                 frequency)

(* EnhancedPianoGenerator._generate_harmonics of generate_audio_v2.py *)
GenerateHarmonicsV2(self, frequency) == GenerateHarmonicsV2From(self, 1, <<>>, frequency)

(* the sample rates of the generators: the default, a telephone rate and a  *)
(* rate whose half is the eighth harmonic of A4                             *)
SynthSampleRates == {44100, 8000, 7040}

(* a generator as constructed from an AudioConfig and a PianoConfig *)
SynthPiano(impl, sample_rate, enabled, use_random_phase) ==
    [impl |-> impl,
     config |-> [enabled |-> enabled, use_random_phase |-> use_random_phase,
                 harmonic_reduction |-> Tenths(7), dynamic_compression |-> TRUE,
                 frequency_separation |-> TRUE],
     sample_rate |-> sample_rate, phase_cache |-> EmptyCache,
     last |-> NoLookup, chord |-> NoChord]

SynthPianos ==
    { SynthPiano(impl, sample_rate, enabled, use_random_phase) :
        impl \in {"merged", "util"}, sample_rate \in SynthSampleRates,
        enabled \in BOOLEAN, use_random_phase \in BOOLEAN }
    \cup { SynthPiano("v2", sample_rate, FALSE, FALSE) :
             sample_rate \in SynthSampleRates }

(* the notes rendered on a generator: every pitch where no phase is drawn,  *)
(* and notes of the top octaves, which have few harmonics to draw phases    *)
(* for, where phases are drawn                                              *)
RenderNotes(self) ==
    IF self.impl = "merged" /\ self.config.use_random_phase THEN {108, 115, 120}
    ELSE IF self.impl = "util" /\ self.config.enabled /\ self.config.use_random_phase
    THEN {96, 120}
    ELSE ValidMidi

(* a generator is asked for one note, again and again, alone and in chords *)
SynthRequest(midi) ==
    [op |-> "synth", calls |-> 0, midi |-> midi,
     chord_context |-> [given |-> FALSE, notes |-> <<>>],
     frequency |-> MidiToFrequency(midi), table |-> <<>>,
     audio |-> <<>>, cache_before |-> EmptyCache]

(* generate of piano.py up to its call of _generate_harmonics *)
CallGenerateHarmonics ==
    /\ piano.impl = "merged" /\ note.op = "synth" /\ note.calls < MaxCalls
    /\ \E chord_context \in ChordContexts(note.midi) :
          LET midi_number == note.midi
              frequency == MidiToFrequency(midi_number)
              harmonics == GetDynamicHarmonics(midi_number)
              is_chord == IsChord(chord_context)
          IN  \E drawn \in [Undrawn(piano, frequency, harmonics, is_chord) -> Phases] :
                 LET r == GenerateHarmonics(piano, frequency, harmonics, is_chord, drawn)
                 IN  /\ piano' = [piano EXCEPT !.phase_cache = r.phase_cache]
                     /\ note' = [note EXCEPT
                                    !.calls = @ + 1,
                                    !.chord_context = chord_context,
                                    !.frequency = frequency,
                                    !.table = harmonics, !.audio = r.audio,
                                    !.cache_before = piano.phase_cache]
    /\ UNCHANGED <<env, clip, mixer, pitch, analysis, disk, batch, facade>>

(* generate_note of audio_util.py up to its call of _generate_harmonics *)
CallGenerateHarmonicsUtil ==
    /\ piano.impl = "util" /\ note.op = "synth" /\ note.calls < MaxCalls
    /\ \E chord_context \in ChordContexts(note.midi) :
          LET midi == note.midi
              frequency == MidiToFrequencyLegacy(midi)
              is_chord == IsChord(chord_context)
          IN  \E drawn \in [UndrawnUtil(piano, frequency, midi) -> Phases] :
                 LET r == GenerateHarmonicsUtil(piano, frequency, midi, is_chord, drawn)
                 IN  /\ piano' = [piano EXCEPT !.phase_cache = r.phase_cache]
                     /\ note' = [note EXCEPT
                                    !.calls = @ + 1,
                                    !.chord_context = chord_context,
                                    !.frequency = frequency,
                                    !.table = [i \in 1..Len(GetHarmonicsConfig(midi)) |->
                                                 [harmonic_number |-> GetHarmonicsConfig(midi)[i][1],
                                                  amplitude |-> GetHarmonicsConfig(midi)[i][2]]],
                                    !.audio = r.audio,
                                    !.cache_before = piano.phase_cache]
    /\ UNCHANGED <<env, clip, mixer, pitch, analysis, disk, batch, facade>>

(* generate of generate_audio_v2.py up to its call of _generate_harmonics;  *)
(* this generator takes no chord context and has no phase cache             *)
CallGenerateHarmonicsV2 ==
    /\ piano.impl = "v2" /\ note.op = "synth" /\ note.calls < MaxCalls
    /\ LET midi_number == note.midi
           frequency == MidiToFrequencyLegacy(midi_number)
       IN  note' = [note EXCEPT
                          !.calls = @ + 1,
                          !.chord_context = [given |-> FALSE, notes |-> <<>>],
                          !.frequency = frequency, !.table = HarmonicsV2,
                          !.audio = GenerateHarmonicsV2(piano, frequency),
                          !.cache_before = piano.phase_cache]
    /\ UNCHANGED <<env, clip, mixer, piano, pitch, analysis, disk, batch, facade>>

(* ---- the whole render of one note: generate of piano.py ---- *)

(* int(x) of Python for x = num / den: the fraction is cut off towards zero *)
IntTrunc(num, den) == Sign(num) * (Abs(num) \div den)

(* order of the Butterworth low-pass of AudioProcessor.lowpass_filter *)
FilterOrder == 4

(* scipy's filtfilt pads the signal by 3 * max(len(a), len(b)) samples on   *)
(* either side and raises ValueError unless the signal is longer than that  *)
PadLen == 3 * (FilterOrder + 1)

(* _adjust_envelope_for_pitch: times in milliseconds *)
AdjustEnvelopeForPitch(midi) ==
    LET config == [attack |-> 10, decay |-> 100, sustain |-> Hundredths(70),
                   release |-> 300, attack_curve |-> 1, decay_curve |-> 1,
                   release_curve |-> 1]
    IN  IF midi > 96
        THEN [config EXCEPT !.attack = 3, !.decay = 80,
                            !.sustain = Hundredths(50), !.release = 600]
        ELSE IF midi > 84
        THEN [config EXCEPT !.attack = 4, !.decay = 100,
                            !.sustain = Hundredths(55), !.release = 700]
        ELSE IF midi > 72
        THEN [config EXCEPT !.attack = 5, !.decay = 120,
                            !.sustain = Hundredths(60), !.release = 800]
        ELSE IF midi < 36
        THEN [config EXCEPT !.attack = 2, !.decay = 180,
                            !.sustain = Hundredths(65), !.release = 1500]
        ELSE IF midi < 48
        THEN [config EXCEPT !.attack = 3, !.decay = 150,
                            !.sustain = Hundredths(65), !.release = 1200]
        ELSE [config EXCEPT !.attack = 5, !.decay = 100,
                            !.sustain = Hundredths(60), !.release = 800]

(* the steps of generate in the order they run *)
StepsToTimeArray == << "midi_to_frequency" >>
StepsToFilter ==
    StepsToTimeArray \o
    << "create_time_array", "get_dynamic_harmonics", "generate_harmonics",
       "apply_physical_modeling", "adjust_envelope_for_pitch", "adsr",
       "apply_envelope", "calculate_dynamic_cutoff" >>
StepsToReturn ==
    StepsToFilter \o
    << "lowpass_filter", "apply_fade", "get_volume_compensation", "normalize",
       "to_int16" >>

(* EnhancedPianoGenerator.generate(midi_number) of piano.py outside a chord *)
(* on a generator whose PianoConfig.duration is duration milliseconds: the  *)
(* steps that ran to their end, and either the buffer returned (by its      *)
(* length) or the exception that left generate                              *)
Generate(sample_rate, duration, midi_number) ==
    LET num_samples == IntTrunc(sample_rate * duration, 1000)
    IN  IF num_samples < 0
        THEN \* np.linspace(0, duration, num_samples) of _create_time_array
             [status |-> "raised", error |-> "ValueError",
              ran |-> StepsToTimeArray, buffer |-> FALSE, length |-> 0]
        ELSE LET envelope == Adsr(num_samples, sample_rate,
                                  AdjustEnvelopeForPitch(midi_number))
             IN  IF envelope.status # "returned"
                    \/ AssignRaises(num_samples, Len(envelope.envelope))
                 THEN \* audio *= envelope
                      [status |-> "raised", error |-> "ValueError",
                       ran |-> SubSeq(StepsToFilter, 1, 7), buffer |-> FALSE,
                       length |-> 0]
                 ELSE IF num_samples <= PadLen
                 THEN \* filtfilt(b, a, audio) of lowpass_filter
                      [status |-> "raised", error |-> "ValueError",
                       ran |-> StepsToFilter, buffer |-> FALSE, length |-> 0]
                 ELSE [status |-> "returned", error |-> "none",
                       ran |-> StepsToReturn, buffer |-> TRUE,
                       length |-> num_samples]

(* sample rates low enough for a note of a few milliseconds to be rendered  *)
RenderSampleRates == {500, 1000}

(* PianoConfig.duration in milliseconds: around zero, and long enough for   *)
(* the low-pass filter                                                      *)
RenderDurations == ((0 - MaxMs)..MaxMs) \cup {20, 40}

RenderRequests ==
    [op : {"render"}, status : {"pending"}, sample_rate : RenderSampleRates,
     duration : RenderDurations, midi : ValidMidi, error : {"none"},
     ran : {<<>>}, buffer : {FALSE}, length : {0}]

(* generate runs on the request *)
CallGenerate ==
    /\ note.op = "render" /\ note.status = "pending"
    /\ LET r == Generate(note.sample_rate, note.duration, note.midi)
       IN  note' = [note EXCEPT !.status = r.status, !.error = r.error,
                                !.ran = r.ran, !.buffer = r.buffer,
                                !.length = r.length]
    /\ UNCHANGED <<env, clip, mixer, piano, pitch, analysis, disk, batch, facade>>

----------------------------------------------------------------------------
(* Quality analysis: AudioQualityAnalyzer of generate_audio.py              *)

NoAnalysis == [op |-> "none", status |-> "pending"]

(* A buffer handed to the analyzer holds samples that are multiples of one  *)
(* half and has 1, 2 or 4 samples: for these the discrete Fourier transform *)
(* is exact, in float64 as in the model, where a spectrum line is kept as   *)
(* [re, im] in halves and its squared magnitude in quarters.                *)

Halves(x) == x \div (SCALE \div 2)

(* np.fft.rfft(audio): the lines 0 .. len(audio) // 2 *)
Rfft(audio) ==
    LET x == [i \in 1..Len(audio) |-> Halves(audio[i])]
    IN  IF Len(audio) = 1 THEN << [re |-> x[1], im |-> 0] >>
        ELSE IF Len(audio) = 2
        THEN << [re |-> x[1] + x[2], im |-> 0], [re |-> x[1] - x[2], im |-> 0] >>
        ELSE << [re |-> x[1] + x[2] + x[3] + x[4], im |-> 0],
                [re |-> x[1] - x[3], im |-> x[4] - x[2]],
                [re |-> x[1] - x[2] + x[3] - x[4], im |-> 0] >>

(* np.abs(fft) ** 2, line by line *)
PowerOf(fft) == [k \in 1..Len(fft) |-> fft[k].re * fft[k].re + fft[k].im * fft[k].im]

(* np.fft.rfftfreq(n, 1 / sr)[k] in Hz on the SCALE grid, k counted from 0 *)
RfftFreq(n, sr, k) == (k * sr * SCALE) \div n

(* np.argmax(magnitude) with magnitude[0] = 0: the first line, counted from *)
(* 0, whose magnitude is the largest; the magnitudes are compared by their  *)
(* squares                                                                  *)
ArgMaxIgnoringDc(power) ==
    LET m == [k \in 1..Len(power) |-> IF k = 1 THEN 0 ELSE power[k]]
    IN  (CHOOSE k \in 1..Len(m) :
            /\ \A j \in 1..Len(m) : m[j] <= m[k]
            /\ \A j \in 1..(k - 1) : m[j] < m[k]) - 1

(* np.argmin(np.abs(freqs - freq)): the first line, counted from 0, that is *)
(* nearest to freq (in Hz on the SCALE grid)                                *)
NearestLine(n, sr, freq) ==
    LET lines == 0..(n \div 2)
        dist(k) == Abs(RfftFreq(n, sr, k) - freq)
    IN  CHOOSE k \in lines :
            /\ \A j \in lines : dist(k) <= dist(j)
            /\ \A j \in lines : j < k => dist(j) > dist(k)

(* floor(p * 10^digits / q) for 0 <= p, 0 < q, digit by digit *)
RECURSIVE LongDiv(_, _, _)
LongDiv(p, q, digits) ==
    IF digits = 0 THEN p \div q
    ELSE (p \div q) * (10 ^ digits) + LongDiv((p % q) * 10, q, digits - 1)

(* the natural logarithm of m, SCALE <= m <= 2 * SCALE, by bisection on exp *)
RECURSIVE LnBisect(_, _, _)
LnBisect(lo, hi, m) ==
    IF hi - lo <= 1 THEN lo
    ELSE LET mid == (lo + hi) \div 2
         IN  IF FMul(ExpNeg(mid), m) >= SCALE
             THEN LnBisect(mid, hi, m) ELSE LnBisect(lo, mid, m)

Ln2 == LnBisect(0, SCALE, 2 * SCALE)

(* np.log(r) for r > 0 on the grid *)
RECURSIVE Ln(_)
Ln(r) ==
    IF r >= 2 * SCALE THEN Ln2 + Ln(r \div 2)
    ELSE IF r < SCALE THEN Ln(2 * r) - Ln2
    ELSE LnBisect(0, SCALE, r)

Ln10 == Ln(10 * SCALE)

PITCH_ERROR_THRESHOLD_CENTS == 10

(* 1200 * np.log2(detected_freq / expected_freq) in tenths of a cent *)
ErrorCents(detected_freq, expected_freq) ==
    LET l == Ln(LongDiv(detected_freq, expected_freq, 4))
    IN  Sign(l) * ((12000 * Abs(l)) \div Ln2)

(* the verdict with the threshold itself counted as accurate *)
IsAccurateInclusive(error_cents) ==
    Abs(error_cents) <= PITCH_ERROR_THRESHOLD_CENTS * 10

(* abs(error_cents) < PITCH_ERROR_THRESHOLD_CENTS, error_cents in tenths *)
IsAccurate(error_cents) ==
    Abs(error_cents) < PITCH_ERROR_THRESHOLD_CENTS * 10

(* the dictionary analyze_spectrum returns *)
SpectrumReport(audio, sr, midi_note) ==
    LET power == PowerOf(Rfft(audio))
        peak_idx == ArgMaxIgnoringDc(power)
        detected_freq == RfftFreq(Len(audio), sr, peak_idx)
        expected_freq == FreqGrid(MidiToFrequencyLegacy(midi_note))
        error_cents == IF detected_freq > 0
                       THEN ErrorCents(detected_freq, expected_freq)
                       ELSE 9990
    IN  [detected_freq |-> detected_freq, expected_freq |-> expected_freq,
         error_cents |-> error_cents, is_accurate |-> IsAccurate(error_cents)]

(* an analysis that clears the first sample of the buffer it is handed *)
AnalyzeSpectrumInPlace(audio, sr, midi_note) ==
    [audio |-> [audio EXCEPT ![1] = 0],
     report |-> SpectrumReport([audio EXCEPT ![1] = 0], sr, midi_note)]

(* AudioQualityAnalyzer.analyze_spectrum: the buffer after the call and the *)
(* report; magnitude[0] = 0 is written to the array np.abs made             *)
AnalyzeSpectrum(audio, sr, midi_note) ==
    [audio |-> audio, report |-> SpectrumReport(audio, sr, midi_note)]

(* signal_power of calculate_snr: the lines nearest to the multiples 1..8   *)
(* of the peak frequency that lie below the last line, each as often as it  *)
(* is hit                                                                   *)
RECURSIVE SignalPower(_, _, _, _, _)
SignalPower(power, n, sr, peak_freq, h) ==
    IF h > 8 THEN 0
    ELSE LET harmonic_freq == peak_freq * h
         IN  (IF harmonic_freq < RfftFreq(n, sr, n \div 2)
              THEN power[NearestLine(n, sr, harmonic_freq) + 1] ELSE 0)
             + SignalPower(power, n, sr, peak_freq, h + 1)

RECURSIVE SumSeq(_)
SumSeq(s) == IF Len(s) = 0 THEN 0 ELSE Head(s) + SumSeq(Tail(s))

(* 10 * np.log10(signal_power / noise_power) in tenths of a decibel; the    *)
(* quotient of float64 is inf or nan for a zero divisor, the logarithm nan  *)
(* for a negative quotient                                                  *)
Decibels(signal_power, noise_power) ==
    IF noise_power = 0
    THEN [kind |-> IF signal_power = 0 THEN "nan" ELSE "inf", value |-> 0,
          divided_by_zero |-> TRUE]
    ELSE IF signal_power = 0
    THEN [kind |-> "inf", value |-> 0, divided_by_zero |-> FALSE]
    ELSE IF noise_power < 0
    THEN [kind |-> "nan", value |-> 0, divided_by_zero |-> FALSE]
    ELSE LET l == Ln(LongDiv(signal_power, noise_power, 4))
         IN  [kind |-> "finite", value |-> Sign(l) * ((100 * Abs(l)) \div Ln10),
              divided_by_zero |-> FALSE]

(* the end of calculate_snr without the test for negligible powers *)
SnrOfUnguarded(signal_power, noise_power) == Decibels(signal_power, noise_power)

(* the end of calculate_snr; the powers are multiples of one quarter, so    *)
(* below 1e-10 is at most 0                                                 *)
SnrOf(signal_power, noise_power) ==
    IF noise_power <= 0 \/ signal_power <= 0
    THEN [kind |-> "finite", value |-> 1000, divided_by_zero |-> FALSE]
    ELSE Decibels(signal_power, noise_power)

(* AudioQualityAnalyzer.calculate_snr *)
CalculateSnr(audio, sr) ==
    LET power == PowerOf(Rfft(audio))
        peak_idx == ArgMaxIgnoringDc(power)
        peak_freq == RfftFreq(Len(audio), sr, peak_idx)
        signal_power == SignalPower(power, Len(audio), sr, peak_freq, 1)
        total_power == SumSeq(power)
        noise_power == total_power - signal_power
    IN  [audio |-> audio,
         report |-> [signal_power |-> signal_power, noise_power |-> noise_power,
                     snr |-> SnrOf(signal_power, noise_power)]]

(* harmonic_power of calculate_thd: harmonics 2..8 below sr / 2 *)
RECURSIVE HarmonicPower(_, _, _, _, _)
HarmonicPower(power, n, sr, fundamental_freq, h) ==
    IF h > 8 THEN 0
    ELSE LET harmonic_freq == fundamental_freq * h
         IN  (IF harmonic_freq < Nyquist(sr)
              THEN power[NearestLine(n, sr, harmonic_freq) + 1] ELSE 0)
             + HarmonicPower(power, n, sr, fundamental_freq, h + 1)

(* AudioQualityAnalyzer.calculate_thd: np.sqrt(harmonic_power /             *)
(* fundamental_power) * 100 in tenths of a percent                          *)
CalculateThd(audio, sr, fundamental_freq) ==
    LET power == PowerOf(Rfft(audio))
        fundamental_power == power[NearestLine(Len(audio), sr, fundamental_freq) + 1]
        harmonic_power == HarmonicPower(power, Len(audio), sr, fundamental_freq, 2)
    IN  [audio |-> audio,
         report |-> [thd |-> IF fundamental_power > 0
                             THEN Bisect(0, 46340,
                                         (harmonic_power * 1000000) \div fundamental_power)
                             ELSE 0]]

AnalysisLengths == {1, 2, 4}
AnalysisSamples == {0, SCALE \div 2, 0 - (SCALE \div 2), SCALE}
AnalysisBuffers == UNION { [1..n -> AnalysisSamples] : n \in AnalysisLengths }

(* sample rates whose lines fall on A4, A5 and A6, a rate whose first line  *)
(* of four lies a tenth of a semitone above A6, and a telephone rate        *)
AnalysisSampleRates == {1760, 7040, 7082, 8000}

(* the notes the buffer is said to hold: A4, A5, A6 *)
AnalysisNotes == {69, 81, 93}

(* a caller holds a buffer and has the analyzer look at it *)
AnalysisRequests ==
    [op : {"analysis"}, given : AnalysisBuffers, sr : AnalysisSampleRates,
     midi_note : AnalysisNotes, reports : {<<>>}]

CallAnalyzeSpectrum ==
    /\ analysis.op = "analysis" /\ Len(analysis.reports) < MaxCalls
    /\ LET r == AnalyzeSpectrum(analysis.audio, analysis.sr, analysis.midi_note)
       IN  analysis' = [analysis EXCEPT
                           !.audio = r.audio,
                           !.reports = Append(@, [op |-> "analyze_spectrum",
                                                  report |-> r.report])]
    /\ UNCHANGED <<env, clip, mixer, piano, pitch, note, disk, batch, facade>>

CallCalculateSnr ==
    /\ analysis.op = "analysis" /\ Len(analysis.reports) < MaxCalls
    /\ LET r == CalculateSnr(analysis.audio, analysis.sr)
       IN  analysis' = [analysis EXCEPT
                           !.audio = r.audio,
                           !.reports = Append(@, [op |-> "calculate_snr",
                                                  report |-> r.report])]
    /\ UNCHANGED <<env, clip, mixer, piano, pitch, note, disk, batch, facade>>

(* the callers hand calculate_thd the frequency of the note *)
CallCalculateThd ==
    /\ analysis.op = "analysis" /\ Len(analysis.reports) < MaxCalls
    /\ LET r == CalculateThd(analysis.audio, analysis.sr,
                             FreqGrid(MidiToFrequencyLegacy(analysis.midi_note)))
       IN  analysis' = [analysis EXCEPT
                           !.audio = r.audio,
                           !.reports = Append(@, [op |-> "calculate_thd",
                                                  report |-> r.report])]
    /\ UNCHANGED <<env, clip, mixer, piano, pitch, note, disk, batch, facade>>

----------------------------------------------------------------------------
(* AudioExporter: audio/io/exporter.py ("merged") and generate_audio.py      *)
(* ("legacy").  The output directory is a function from paths to what each  *)
(* file holds: 0 for no file, otherwise the number of the export call whose *)
(* audio it holds.  A path is [stem, ext]: output_dir / f"{stem}.{ext}".    *)
(* ffmpeg is an executable outside the program: it is found or not, a run   *)
(* that finds it ends with exit status 0 or raises CalledProcessError.      *)

Stems == {"note_60", "note_61"}
Exts == {"wav", "mp3"}
Paths == [stem : Stems, ext : Exts]
NoPath == [stem |-> "", ext |-> ""]
EmptyDir == [p \in Paths |-> 0]

(* subprocess.run([ 'ffmpeg', ... ], check=True): what it does when the     *)
(* executable is found or not and the run goes well or not                  *)
SubprocessRun(found, well) ==
    IF ~found THEN "FileNotFoundError"
    ELSE IF well THEN "ok" ELSE "CalledProcessError"

(* _check_ffmpeg: both errors mean "no ffmpeg" *)
CheckFfmpeg(found, well) == SubprocessRun(found, well) = "ok"

(* _convert_to_mp3: True, False on CalledProcessError; any other error of   *)
(* the run leaves the function                                              *)
ConvertToMp3(found, well) ==
    LET run == SubprocessRun(found, well)
    IN  IF run = "ok" THEN "True"
        ELSE IF run = "CalledProcessError" THEN "False"
        ELSE run

(* export(audio, sample_rate, filename, output_format / prefer_mp3): the    *)
(* WAV file is written, then converted if MP3 is wanted and has_ffmpeg is   *)
(* set; a conversion that returned True has written the MP3 file and the    *)
(* WAV file is unlinked.  Gives the directory after the call, what the call *)
(* returned or raised, and how the conversion ended ("none": not tried).    *)
Export(files, has_ffmpeg, found, well, stem, audio, want_mp3) ==
    LET wav_path == [stem |-> stem, ext |-> "wav"]
        mp3_path == [stem |-> stem, ext |-> "mp3"]
        written == [files EXCEPT ![wav_path] = audio]
        converted == ConvertToMp3(found, well)
    IN  IF want_mp3 /\ has_ffmpeg
        THEN IF converted = "True"
             THEN [files |-> [written EXCEPT ![mp3_path] = audio, ![wav_path] = 0],
                   status |-> "returned", path |-> mp3_path, conversion |-> "True"]
             ELSE IF converted = "False"
             THEN [files |-> written, status |-> "returned", path |-> wav_path,
                   conversion |-> "False"]
             ELSE [files |-> written, status |-> "raised", path |-> NoPath,
                   conversion |-> converted]
        ELSE [files |-> written, status |-> "returned", path |-> wav_path,
              conversion |-> "none"]

NoExport == [status |-> "none", path |-> NoPath, conversion |-> "none",
             stem |-> "", audio |-> 0, found |-> FALSE, want_mp3 |-> FALSE]

NoDisk == [impl |-> "none", ffmpeg |-> FALSE, has_ffmpeg |-> FALSE,
           files |-> EmptyDir, exports |-> 0, last |-> NoExport]

(* AudioExporter(output_dir): has_ffmpeg is looked up once, here *)
NewExporter(impl, found, well) ==
    [impl |-> impl, ffmpeg |-> found, has_ffmpeg |-> CheckFfmpeg(found, well),
     files |-> EmptyDir, exports |-> 0, last |-> NoExport]

Exporters ==
    { NewExporter(impl, found, well) :
        impl \in {"merged", "legacy"}, found \in BOOLEAN, well \in BOOLEAN }

ExportCall(want_mp3) ==
    /\ disk.exports < MaxExports
    /\ \E stem \in Stems, well \in BOOLEAN :
          LET audio == disk.exports + 1
              done == Export(disk.files, disk.has_ffmpeg, disk.ffmpeg, well,
                             stem, audio, want_mp3)
          IN  disk' = [disk EXCEPT
                  !.files = done.files,
                  !.exports = audio,
                  !.last = [status |-> done.status, path |-> done.path,
                            conversion |-> done.conversion, stem |-> stem,
                            audio |-> audio, found |-> disk.ffmpeg,
                            want_mp3 |-> want_mp3]]
    /\ UNCHANGED <<env, clip, mixer, piano, pitch, note, analysis, batch, facade>>

(* exporter.py: export(audio, sample_rate, filename, output_format) *)
CallExport ==
    /\ disk.impl = "merged"
    /\ \E output_format \in {"mp3", "wav"} : ExportCall(output_format = "mp3")

(* generate_audio.py: export(audio, sample_rate, filename, prefer_mp3) *)
CallExportLegacy ==
    /\ disk.impl = "legacy"
    /\ \E prefer_mp3 \in BOOLEAN : ExportCall(prefer_mp3)

(* between two calls the ffmpeg executable is installed or removed; the     *)
(* exporter keeps the has_ffmpeg it looked up when it was made              *)
FfmpegChanges ==
    /\ disk.impl # "none"
    /\ disk' = [disk EXCEPT !.ffmpeg = ~disk.ffmpeg]
    /\ UNCHANGED <<env, clip, mixer, piano, pitch, note, analysis, batch, facade>>

----------------------------------------------------------------------------
(* Batch rendering.  AudioGenerationPipeline of generate_audio.py renders   *)
(* the notes of MIDI_RANGE one after the other ("sequential") or in a       *)
(* process pool ("parallel"); generate_from_config of audio/generate.py     *)
(* renders and exports in a loop ("from_config"); AudioGenerationApp of     *)
(* generate_audio_v2.py hands tasks to a pool ("v2_parallel").              *)
(* What rendering one note does is drawn beforehand, per note: the step     *)
(* that raises ("none" if no step does), and what the analyzer reports      *)
(* (is_accurate, snr > SNR_THRESHOLD_DB).                                   *)

MIDI_MIN == 21

(* list(MIDI_RANGE), cut to its first BatchSize notes *)
MidiRange == [i \in 1..BatchSize |-> MIDI_MIN + i - 1]

MidiNotes == { MidiRange[i] : i \in 1..BatchSize }

Outcomes ==
    [fails : {"generate", "analyze"}, accurate : {FALSE}, high_snr : {FALSE}]
        \cup [fails : {"none", "export"}, accurate : BOOLEAN, high_snr : BOOLEAN]

None == [midi |-> 0, kind |-> "None"]
(* f"MIDI {midi}: 音高误差=..." *)
PitchIssue(midi) == [midi |-> midi, kind |-> "pitch"]
(* f"MIDI {midi}: 生成失败 - {e}" *)
FailedIssue(midi) == [midi |-> midi, kind |-> "failed"]

NoStats == [total |-> 0, accurate |-> 0, high_snr |-> 0, issues |-> <<>>]

(* f'note_{midi}' *)
NoteFile(midi) == <<"note", midi>>

(* midi_to_note_name: the name's index in the octave and the octave *)
MidiToNoteName(midi) == <<midi % 12, (midi \div 12) - 1>>

(* output_dir / f"{midi_number}_{note_name}.wav" *)
V2NoteFile(midi) == <<midi, MidiToNoteName(midi)>>

(* the counting of the sequential loop for one note *)
CountNote(stats, midi, accurate, high_snr) ==
    [total |-> stats.total + 1,
     accurate |-> stats.accurate + (IF accurate THEN 1 ELSE 0),
     high_snr |-> stats.high_snr + (IF high_snr THEN 1 ELSE 0),
     issues |-> IF ~accurate THEN Append(stats.issues, PitchIssue(midi))
                ELSE stats.issues]

(* _generate_single_note: try: generate, analyze, export, return the dict;  *)
(* except Exception: return the dict of a failed note                       *)
GenerateSingleNote(midi, outcome) ==
    IF outcome.fails = "none"
    THEN [midi |-> midi, accurate |-> outcome.accurate, high_snr |-> outcome.high_snr,
          issue |-> IF outcome.accurate THEN None ELSE PitchIssue(midi)]
    ELSE [midi |-> midi, accurate |-> FALSE, high_snr |-> FALSE,
          issue |-> FailedIssue(midi)]

(* results in the order the workers finished in *)
PoolMapUnordered(midi_notes, results, finished) ==
    [i \in 1..Len(finished) |-> results[finished[i]]]

(* pool.map(generate_func, midi_notes): the results in the order of          *)
(* midi_notes, whatever order the workers finished in                        *)
PoolMap(midi_notes, results, finished) ==
    [i \in 1..Len(midi_notes) |-> results[midi_notes[i]]]

(* the counting loop over the results of the pool; a result is a non-empty  *)
(* dict, which is true                                                       *)
RECURSIVE CountResults(_, _, _)
CountResults(stats, results, i) ==
    IF i > Len(results) THEN stats
    ELSE LET result == results[i]
         IN  CountResults(
                 [total |-> stats.total + 1,
                  accurate |-> stats.accurate + (IF result.accurate THEN 1 ELSE 0),
                  high_snr |-> stats.high_snr + (IF result.high_snr THEN 1 ELSE 0),
                  issues |-> IF result.issue # None
                             THEN Append(stats.issues, result.issue)
                             ELSE stats.issues],
                 results, i + 1)

(* _process_note_task: try: generate, save, plot the analysis, return True; *)
(* except Exception: return False                                            *)
ProcessNoteTask(outcome) == outcome.fails = "none"

BatchModes == {"sequential", "parallel", "from_config", "v2_parallel"}

NoBatch == [mode |-> "none", midi_notes |-> <<>>, outcome |-> <<>>,
            status |-> "idle", pos |-> 1, finished |-> <<>>, results |-> <<>>,
            yielded |-> <<>>, files |-> {}, quality_stats |-> NoStats]

NewBatch(mode, outcome) ==
    [mode |-> mode, midi_notes |-> MidiRange, outcome |-> outcome,
     status |-> "running", pos |-> 1, finished |-> <<>>,
     results |-> [midi \in MidiNotes |-> None], yielded |-> <<>>, files |-> {},
     quality_stats |-> NoStats]

Batches ==
    { NewBatch(mode, outcome) :
        mode \in BatchModes, outcome \in [MidiNotes -> Outcomes] }

(* the notes whose worker has finished *)
Finished == { batch.finished[i] : i \in 1..Len(batch.finished) }

AfterNote(pos) == IF pos = Len(batch.midi_notes) THEN "done" ELSE "running"

(* one pass of the loop of _generate_piano_notes: generate, analyze, count, *)
(* export; no step is inside a try, an error ends the run                   *)
SequentialIteration ==
    /\ batch.mode = "sequential" /\ batch.status = "running"
    /\ LET i == batch.pos
           midi == batch.midi_notes[i]
           outcome == batch.outcome[midi]
           counted == CountNote(batch.quality_stats, midi, outcome.accurate,
                                outcome.high_snr)
       IN  batch' =
               IF outcome.fails \in {"generate", "analyze"}
               THEN [batch EXCEPT !.status = "aborted"]
               ELSE IF outcome.fails = "export"
               THEN [batch EXCEPT !.status = "aborted", !.quality_stats = counted]
               ELSE [batch EXCEPT
                        !.quality_stats = counted,
                        !.files = @ \cup {[path |-> NoteFile(midi), midi |-> midi]},
                        !.pos = i + 1,
                        !.status = AfterNote(i)]
    /\ UNCHANGED <<env, clip, mixer, piano, pitch, note, analysis, disk, facade>>

(* one pass of the note loop of generate_from_config: generate, export *)
FromConfigIteration ==
    /\ batch.mode = "from_config" /\ batch.status = "running"
    /\ LET i == batch.pos
           midi == batch.midi_notes[i]
           outcome == batch.outcome[midi]
       IN  batch' =
               IF outcome.fails \in {"generate", "export"}
               THEN [batch EXCEPT !.status = "aborted"]
               ELSE [batch EXCEPT
                        !.files = @ \cup {[path |-> NoteFile(midi), midi |-> midi]},
                        !.pos = i + 1,
                        !.status = AfterNote(i)]
    /\ UNCHANGED <<env, clip, mixer, piano, pitch, note, analysis, disk, facade>>

(* a worker of the pool runs _generate_single_note on a note not yet done *)
WorkerRuns ==
    /\ batch.mode = "parallel" /\ batch.status = "running"
    /\ \E i \in 1..Len(batch.midi_notes) :
          LET midi == batch.midi_notes[i]
              outcome == batch.outcome[midi]
          IN  /\ midi \notin Finished
              /\ batch' = [batch EXCEPT
                     !.results[midi] = GenerateSingleNote(midi, outcome),
                     !.finished = Append(@, midi),
                     !.files = IF outcome.fails = "none"
                               THEN @ \cup {[path |-> NoteFile(midi), midi |-> midi]}
                               ELSE @]
    /\ UNCHANGED <<env, clip, mixer, piano, pitch, note, analysis, disk, facade>>

(* pool.map returns once every worker has finished; the results are counted *)
PoolMapReturns ==
    /\ batch.mode = "parallel" /\ batch.status = "running"
    /\ Len(batch.finished) = Len(batch.midi_notes)
    /\ LET results == PoolMap(batch.midi_notes, batch.results, batch.finished)
       IN  batch' = [batch EXCEPT
               !.quality_stats = CountResults(batch.quality_stats, results, 1),
               !.status = "done"]
    /\ UNCHANGED <<env, clip, mixer, piano, pitch, note, analysis, disk, facade>>

(* a worker of the pool of _generate_notes_parallel runs _process_note_task *)
(* on a task not yet done; imap_unordered yields its result as it finishes  *)
ProcessNoteTaskRuns ==
    /\ batch.mode = "v2_parallel" /\ batch.status = "running"
    /\ \E i \in 1..Len(batch.midi_notes) :
          LET midi == batch.midi_notes[i]
              outcome == batch.outcome[midi]
          IN  /\ midi \notin Finished
              /\ batch' = [batch EXCEPT
                     !.finished = Append(@, midi),
                     !.yielded = Append(@, ProcessNoteTask(outcome)),
                     !.files = IF outcome.fails \in {"none", "analyze"}
                               THEN @ \cup {[path |-> V2NoteFile(midi), midi |-> midi]}
                               ELSE @,
                     !.status = IF Len(batch.finished) + 1 = Len(batch.midi_notes)
                                THEN "done" ELSE "running"]
    /\ UNCHANGED <<env, clip, mixer, piano, pitch, note, analysis, disk, facade>>

----------------------------------------------------------------------------
(* Attack humanization: EnhancedPianoGenerator._humanize_attack of          *)
(* audio/generators/piano.py ("merged") and of audio_util.py ("util").      *)
(* The delay the random generator draws is a whole number of milliseconds.  *)

(* np.pad(envelope, (delay_samples, 0))[:len(envelope)] *)
PadFront(envelope, delay_samples) ==
    [i \in 1..Len(envelope) |->
        IF i <= delay_samples THEN 0 ELSE envelope[i - delay_samples]]

(* np.pad(envelope[delay_samples:], (0, delay_samples)): the slice has      *)
(* max(len - delay_samples, 0) entries                                       *)
PadBack(envelope, delay_samples) ==
    LET kept == Max(Len(envelope) - delay_samples, 0)
    IN  [i \in 1..(kept + delay_samples) |->
            IF i <= kept THEN envelope[i + delay_samples] ELSE 0]

(* piano.py: _humanize_attack(envelope, sample_rate) with the delay_ms drawn *)
HumanizeAttack(envelope, sample_rate, enabled, delay_ms) ==
    LET delay_samples == ToSamples(Abs(delay_ms), sample_rate)
    IN  IF ~enabled THEN envelope
        ELSE IF delay_samples = 0 THEN envelope
        ELSE IF delay_ms > 0 THEN PadFront(envelope, delay_samples)
        ELSE PadBack(envelope, delay_samples)

(* audio_util.py: _humanize_attack(envelope) with the delay_ms drawn; the   *)
(* first min(delay_samples, 50) entries are then overwritten by a ramp from *)
(* 0 to the entry that follows them                                         *)
HumanizeAttackUtil(envelope, sample_rate, humanization_ms, delay_ms) ==
    LET delay_samples == ToSamples(delay_ms, sample_rate)
        delayed == PadFront(envelope, delay_samples)
        transition == Min(delay_samples, 50)
        target == IF transition < Len(delayed) THEN delayed[transition + 1] ELSE 0
    IN  IF humanization_ms <= 0 THEN envelope
        ELSE IF delay_samples > 0 /\ delay_samples < Len(envelope)
        THEN [i \in 1..Len(delayed) |->
                 IF i <= transition THEN Linspace(0, target, transition, i - 1)
                 ELSE delayed[i]]
        ELSE envelope

EnvelopeLevels == {0, SCALE \div 2, SCALE}

HumanizeRequests ==
    [op : {"humanize"}, status : {"pending"}, impl : {"merged", "util"},
     envelope : SeqsUpTo(EnvelopeLevels, MaxMs), sample_rate : {500, 1000},
     enabled : BOOLEAN, attack_humanization_ms : 0..MaxMs,
     delay_ms : {0}, result : {<<>>}]

(* piano.py: delay_ms = np.random.uniform(-attack_humanization_ms,          *)
(* attack_humanization_ms), drawn only when chord optimization is enabled   *)
CallHumanizeAttack ==
    /\ note.op = "humanize" /\ note.impl = "merged" /\ note.status = "pending"
    /\ \E delay_ms \in IF note.enabled
                       THEN (0 - note.attack_humanization_ms)..note.attack_humanization_ms
                       ELSE {0} :
          note' = [note EXCEPT
              !.status = "returned",
              !.delay_ms = delay_ms,
              !.result = HumanizeAttack(note.envelope, note.sample_rate,
                                        note.enabled, delay_ms)]
    /\ UNCHANGED <<env, clip, mixer, piano, pitch, analysis, disk, batch, facade>>

(* audio_util.py: delay_ms = random.uniform(0, humanization_ms), drawn only *)
(* when humanization_ms > 0                                                 *)
CallHumanizeAttackUtil ==
    /\ note.op = "humanize" /\ note.impl = "util" /\ note.status = "pending"
    /\ \E delay_ms \in 0..note.attack_humanization_ms :
          note' = [note EXCEPT
              !.status = "returned",
              !.delay_ms = delay_ms,
              !.result = HumanizeAttackUtil(note.envelope, note.sample_rate,
                                            note.attack_humanization_ms, delay_ms)]
    /\ UNCHANGED <<env, clip, mixer, piano, pitch, analysis, disk, batch, facade>>

----------------------------------------------------------------------------
(* The level of a rendered note: the last steps of generate of piano.py,    *)
(* loudness compensation, normalization and quantization to 16 bits.        *)

(* _get_volume_compensation(midi), on the grid *)
GetVolumeCompensation(midi) ==
    IF midi <= 36 THEN Hundredths(150)
    ELSE IF midi <= 48 THEN Hundredths(135)
    ELSE IF midi <= 60 THEN Hundredths(115)
    ELSE IF midi <= 72 THEN Hundredths(100)
    ELSE IF midi <= 84 THEN Hundredths(85)
    ELSE IF midi <= 96 THEN Hundredths(75)
    ELSE Hundredths(65)

(* the peak generate asks normalize for: 0.9 * volume_comp * velocity *)
TargetPeak(midi, velocity) ==
    FMul(FMul(Tenths(9), GetVolumeCompensation(midi)), velocity)

(* AudioProcessor.normalize of audio_processor.py:                          *)
(* audio * (target_peak / max_val) * volume, the audio itself if it is silent *)
ProcessorNormalize(audio, target_peak, volume) ==
    LET max_val == PeakOf(audio)
    IN  IF max_val > 0
        THEN [i \in 1..Len(audio) |->
                 SMul(SMul(audio[i], FDiv(target_peak, max_val)), volume)]
        ELSE audio

(* np.clip(x, -1.0, 1.0) *)
Clip(x) == Max(0 - SCALE, Min(SCALE, x))

(* AudioProcessor.to_int16: (np.clip(audio, -1, 1) * 32767).astype(np.int16) *)
ToInt16(audio) ==
    [i \in 1..Len(audio) |-> IntTrunc(Clip(audio[i]) * 32767, SCALE)]

(* the buffers that reach normalize (never empty: the low-pass filter has  *)
(* passed them): of silence, a half-scale and a full-scale sample           *)
LevelSamples == {0 - SCALE, 0, Tenths(5)}
RenderedNotes == 21..108
Velocities == { Tenths(k) : k \in 0..10 }

LevelRequests ==
    [op : {"level"}, status : {"pending"}, midi : RenderedNotes,
     velocity : Velocities,
     audio : { audio \in SeqsUpTo(LevelSamples, MaxBufLen) : Len(audio) >= 1 },
     target_peak : {0}, normalized : {<<>>}, result : {<<>>}]

(* generate, from the loudness compensation on: volume_comp, normalize,     *)
(* to_int16                                                                  *)
CallGenerateLevel ==
    /\ note.op = "level" /\ note.status = "pending"
    /\ LET target_peak == TargetPeak(note.midi, note.velocity)
           normalized == ProcessorNormalize(note.audio, target_peak, SCALE)
       IN  note' = [note EXCEPT
               !.status = "returned",
               !.target_peak = target_peak,
               !.normalized = normalized,
               !.result = ToInt16(normalized)]
    /\ UNCHANGED <<env, clip, mixer, piano, pitch, analysis, disk, batch, facade>>

----------------------------------------------------------------------------
(* AudioGenerator of audio_util.py, the unified interface: it holds one     *)
(* PianoConfig (piano_config) and one EnhancedPianoGenerator (piano).  The  *)
(* pedal state lives in piano_config.sustain_pedal, which the generator's   *)
(* SustainPedalProcessor shares; the reverb and the phase cache live in the *)
(* generator.  Durations are whole milliseconds.  The phases come from the  *)
(* stream of Python's random module: its k-th value is written k, and       *)
(* random counts the values already taken.                                  *)

(* PianoConfig.duration *)
DefaultDuration == 2500
(* EnvelopeConfig.attack of PianoConfig.envelope *)
PianoAttack == 5
(* AudioGenerator's sample_rate *)
FacadeSampleRate == 44100

(* ReverbConfig(type=ReverbType.HALL, wet_dry_mix=0.25) of __init__ *)
DefaultReverb == [type |-> "HALL", wet_dry_mix |-> Hundredths(25)]

(* EnhancedPianoGenerator(audio_config, piano_config) *)
NewUtilPiano == [reverb |-> DefaultReverb, phase_cache |-> EmptyCache]

(* get_release_multiplier with release_extension = 2.5 *)
GetReleaseMultiplier(state) ==
    IF state = "OFF" THEN SCALE
    ELSE IF state = "HALF" THEN SCALE + FMul(Tenths(25) - SCALE, Tenths(5))
    ELSE Tenths(25)

(* generate_note(midi, velocity) of audio_util.py on the generator gen with *)
(* the config piano_config: the harmonics are generated, which draws the    *)
(* phases not yet cached, then the envelope is built, whose attack is       *)
(* written without asking whether it fits                                   *)
GenerateNote(gen, piano_config, midi, drawn) ==
    LET duration == FMul(piano_config.duration, GetReleaseMultiplier(piano_config.pedal))
        num_samples == ToSamples(duration, FacadeSampleRate)
        self == [SynthPiano("util", FacadeSampleRate, TRUE, TRUE)
                    EXCEPT !.phase_cache = gen.phase_cache]
        sound == GenerateHarmonicsUtil(self, MidiToFrequencyLegacy(midi), midi,
                                       FALSE, drawn)
        attack_samples == ToSamples(PianoAttack, FacadeSampleRate)
    IN  [phase_cache |-> sound.phase_cache,
         status |-> IF attack_samples > 0
                       /\ AssignRaises(SliceLen(0, attack_samples, num_samples),
                                       attack_samples)
                    THEN "raised" ELSE "returned"]

(* the phases generate_note has to draw on the generator gen *)
ToDraw(gen, midi) ==
    UndrawnUtil([SynthPiano("util", FacadeSampleRate, TRUE, TRUE)
                    EXCEPT !.phase_cache = gen.phase_cache],
                MidiToFrequencyLegacy(midi), midi)

(* the next values of the random stream, handed out in the order of the     *)
(* harmonics that ask for one                                               *)
NextRandom(undrawn) ==
    [n \in undrawn |-> facade.random + Cardinality({ m \in undrawn : m <= n })]

Snapshot ==
    [duration |-> facade.piano_config.duration, pedal |-> facade.piano_config.pedal,
     reverb |-> facade.piano.reverb, phase_cache |-> facade.piano.phase_cache]

NoFacade ==
    [piano_config |-> [duration |-> DefaultDuration, pedal |-> "OFF"],
     piano |-> NewUtilPiano, random |-> 0,
     last |-> [op |-> "none", status |-> "returned", override |-> FALSE,
               before |-> [duration |-> DefaultDuration, pedal |-> "OFF",
                           reverb |-> DefaultReverb, phase_cache |-> EmptyCache]]]

(* AudioGenerator(sample_rate) *)
NewFacade == [NoFacade EXCEPT !.last.op = "init"]

(* the notes asked of the facade: one of the top octave, with four harmonics *)
FacadeNotes == {120}
(* the durations a caller overrides with: none at all, and a second *)
OverrideDurations == {0, 1000}
ReverbSettings ==
    {[type |-> "ROOM", wet_dry_mix |-> Hundredths(25)],
     [type |-> "HALL", wet_dry_mix |-> Hundredths(50)]}

(* set_piano_reverb(reverb_type, wet_dry_mix) *)
SetPianoReverb ==
    /\ facade.last.op # "none"
    /\ \E config \in ReverbSettings :
          facade' = [facade EXCEPT
              !.piano.reverb = config,
              !.last = [op |-> "set_piano_reverb", status |-> "returned",
                        override |-> FALSE, before |-> Snapshot]]
    /\ UNCHANGED <<env, clip, mixer, piano, pitch, note, analysis, disk, batch>>

(* set_sustain_pedal(state) *)
SetSustainPedal ==
    /\ facade.last.op # "none"
    /\ \E state \in {"OFF", "FULL"} :
          facade' = [facade EXCEPT
              !.piano_config.pedal = state,
              !.last = [op |-> "set_sustain_pedal", status |-> "returned",
                        override |-> FALSE, before |-> Snapshot]]
    /\ UNCHANGED <<env, clip, mixer, piano, pitch, note, analysis, disk, batch>>

(* piano_note(midi_note, velocity) without a duration *)
PianoNote ==
    /\ facade.last.op # "none"
    /\ \E midi_note \in FacadeNotes :
          LET undrawn == ToDraw(facade.piano, midi_note)
              audio == GenerateNote(facade.piano, facade.piano_config,
                                    midi_note, NextRandom(undrawn))
          IN  /\ facade.random + Cardinality(undrawn) <= MaxDraws
              /\ facade' = [facade EXCEPT
                     !.piano.phase_cache = audio.phase_cache,
                     !.random = @ + Cardinality(undrawn),
                     !.last = [op |-> "piano_note", status |-> audio.status,
                               override |-> FALSE, before |-> Snapshot]]
    /\ UNCHANGED <<env, clip, mixer, piano, pitch, note, analysis, disk, batch>>

(* piano_note(midi_note, velocity, duration): the duration is written into  *)
(* piano_config, a new generator replaces the piano, the note is generated  *)
(* and, if generate_note returned, the old duration is written back         *)
PianoNoteWithDuration ==
    /\ facade.last.op # "none"
    /\ \E midi_note \in FacadeNotes, duration \in OverrideDurations :
          LET old_duration == facade.piano_config.duration
              piano_config == [facade.piano_config EXCEPT !.duration = duration]
              undrawn == ToDraw(NewUtilPiano, midi_note)
              audio == GenerateNote(NewUtilPiano, piano_config, midi_note,
                                    NextRandom(undrawn))
          IN  /\ facade.random + Cardinality(undrawn) <= MaxDraws
              /\ facade' = [facade EXCEPT
                     !.piano = [NewUtilPiano EXCEPT !.phase_cache = audio.phase_cache],
                     !.random = @ + Cardinality(undrawn),
                     !.piano_config.duration =
                         IF audio.status = "returned" THEN old_duration ELSE duration,
                     !.last = [op |-> "piano_note", status |-> audio.status,
                               override |-> TRUE, before |-> Snapshot]]
    /\ UNCHANGED <<env, clip, mixer, piano, pitch, note, analysis, disk, batch>>

----------------------------------------------------------------------------
(* GeneratorFactory of generate_audio_v2.py.  The soundfont backend is the  *)
(* fluidsynth module (HAS_FLUIDSYNTH says whether its import succeeded), a  *)
(* FluidSynthGenerator the application may hand to the factory, and a       *)
(* SoundFont file that is found on disk, can be downloaded, or neither.     *)

InstrumentTypes ==
    {"PIANO", "ELECTRIC_PIANO", "ORGAN", "STRINGS", "PAD", "BELL", "BASS", "PLUCK"}

(* UniversalInstrumentGenerator.__init__: it stores its arguments and       *)
(* leaves the backend for the first generate; it raises nothing             *)
UniversalInstrumentGenerator(instrument_type, fs_generator) ==
    [status |-> "constructed",
     generator |-> [class |-> "UniversalInstrumentGenerator",
                    instrument_type |-> instrument_type,
                    fs_generator |-> fs_generator, initialized |-> FALSE]]

(* EnhancedPianoGenerator(config, piano_config), the procedural synthesizer *)
EnhancedPianoGeneratorV2(instrument_type) ==
    [class |-> "EnhancedPianoGenerator", instrument_type |-> instrument_type,
     fs_generator |-> "None", initialized |-> TRUE]

(* GeneratorFactory.create_generator(instrument_type) *)
CreateGenerator(has_fluidsynth, fs_generator, instrument_type) ==
    IF has_fluidsynth /\ fs_generator # "None"
    THEN UniversalInstrumentGenerator(instrument_type, fs_generator).generator
    ELSE IF instrument_type = "PIANO"
    THEN EnhancedPianoGeneratorV2("PIANO")
    ELSE LET made == UniversalInstrumentGenerator(instrument_type, "None")
         IN  IF made.status = "ImportError"
             THEN EnhancedPianoGeneratorV2(instrument_type)
             ELSE made.generator

(* UniversalInstrumentGenerator._initialize: the error it raises, or "ok" *)
Initialize(generator, has_fluidsynth, soundfont) ==
    IF generator.initialized THEN "ok"
    ELSE IF ~has_fluidsynth THEN "ImportError"
    ELSE IF generator.fs_generator = "None" /\ soundfont = "unavailable"
    THEN "download failed"
    ELSE "ok"

(* generate(midi_number) of the generator the factory returned *)
GeneratorGenerate(generator, has_fluidsynth, soundfont) ==
    IF generator.class = "EnhancedPianoGenerator" THEN "returned"
    ELSE IF Initialize(generator, has_fluidsynth, soundfont) = "ok" THEN "returned"
    ELSE "raised"

NoGenerator == [class |-> "None", instrument_type |-> "", fs_generator |-> "None",
                initialized |-> FALSE]

(* the application's FluidSynth generator exists only if the import succeeded *)
FactoryRequests ==
    { r \in [op : {"factory"}, status : {"pending"}, has_fluidsynth : BOOLEAN,
             fs_generator : {"None", "shared"},
             soundfont : {"found", "downloadable", "unavailable"},
             instrument_type : InstrumentTypes, midi : {21, 60, 108},
             generator : {NoGenerator}] :
        r.fs_generator = "shared" => r.has_fluidsynth /\ r.soundfont = "found" }

(* the factory is asked for a generator *)
CallCreateGenerator ==
    /\ note.op = "factory" /\ note.status = "pending"
    /\ note' = [note EXCEPT
           !.status = "created",
           !.generator = CreateGenerator(note.has_fluidsynth, note.fs_generator,
                                         note.instrument_type)]
    /\ UNCHANGED <<env, clip, mixer, piano, pitch, analysis, disk, batch, facade>>

(* generate(midi) is called on the generator the factory returned *)
CallGeneratorGenerate ==
    /\ note.op = "factory" /\ note.status = "created"
    /\ note' = [note EXCEPT
           !.status = GeneratorGenerate(note.generator, note.has_fluidsynth,
                                        note.soundfont)]
    /\ UNCHANGED <<env, clip, mixer, piano, pitch, analysis, disk, batch, facade>>

----------------------------------------------------------------------------
(* Specifications *)

InitEnvelope ==
    /\ facade = NoFacade
    /\ disk = NoDisk
    /\ batch = NoBatch
    /\ \/ env \in AdsrRequests
       \/ env \in AdsrLegacyRequests
       \/ env \in EnvelopeGenerateRequests
    /\ clip = NoClip
    /\ mixer = NoMixer
    /\ piano = NoPiano
    /\ pitch = NoPitch
    /\ note = NoNote
    /\ analysis = NoAnalysis

NextEnvelope == CallAdsr \/ CallAdsrLegacy \/ CallEnvelopeGenerate

SpecEnvelope == InitEnvelope /\ [][NextEnvelope]_vars

InitClip ==
    /\ facade = NoFacade
    /\ disk = NoDisk
    /\ batch = NoBatch
    /\ env = NoEnv
    /\ clip \in ClipRequests
    /\ mixer = NoMixer
    /\ piano = NoPiano
    /\ pitch = NoPitch
    /\ note = NoNote
    /\ analysis = NoAnalysis

NextClip == CallSoftClip \/ CallSoftClipUtil

SpecClip == InitClip /\ [][NextClip]_vars

(* a caller holds a mixer, or a generator, or passes an empty chord to both *)
InitMix ==
    /\ facade = NoFacade
    /\ disk = NoDisk
    /\ batch = NoBatch
    /\ env = NoEnv
    /\ clip = NoClip
    /\ pitch = NoPitch
    /\ note = NoNote
    /\ analysis = NoAnalysis
    /\ \/ mixer \in ChordMixerRequests /\ piano = NoPiano
       \/ mixer \in UtilChordMixerRequests /\ piano = NoPiano
       \/ mixer = NoMixer /\ piano \in ChordRequests
       \/ /\ mixer \in ChordMixerRequests \/ mixer \in UtilChordMixerRequests
          /\ mixer.audios = <<>>
          /\ piano \in ChordRequests
          /\ piano.chord.midi_notes = <<>>

NextMix == CallMix \/ CallMixUtil \/ CallGenerateChord

SpecMix == InitMix /\ [][NextMix]_vars

InitPhase ==
    /\ facade = NoFacade
    /\ disk = NoDisk
    /\ batch = NoBatch
    /\ env = NoEnv
    /\ clip = NoClip
    /\ mixer = NoMixer
    /\ piano \in {NewPiano("merged"), NewPiano("util")}
    /\ pitch = NoPitch
    /\ note = NoNote
    /\ analysis = NoAnalysis

NextPhase ==
    \/ CallGetRandomPhase \/ CallGetRandomPhaseUtil
    \/ ClearPhaseCache \/ ClearPhaseCacheUtil

SpecPhase == InitPhase /\ [][NextPhase]_vars

InitPitch ==
    /\ facade = NoFacade
    /\ disk = NoDisk
    /\ batch = NoBatch
    /\ env = NoEnv
    /\ clip = NoClip
    /\ mixer = NoMixer
    /\ piano = NoPiano
    /\ pitch \in PitchRequests
    /\ note = NoNote
    /\ analysis = NoAnalysis

NextPitch == CallMidiToFrequency \/ CallMidiToFrequencyLegacy

SpecPitch == InitPitch /\ [][NextPitch]_vars

InitHarmonics ==
    /\ facade = NoFacade
    /\ disk = NoDisk
    /\ batch = NoBatch
    /\ env = NoEnv
    /\ clip = NoClip
    /\ mixer = NoMixer
    /\ piano = NoPiano
    /\ pitch = NoPitch
    /\ note \in HarmonicsRequests
    /\ analysis = NoAnalysis

NextHarmonics == CallGetDynamicHarmonics

SpecHarmonics == InitHarmonics /\ [][NextHarmonics]_vars

InitSynth ==
    /\ facade = NoFacade
    /\ disk = NoDisk
    /\ batch = NoBatch
    /\ env = NoEnv
    /\ clip = NoClip
    /\ mixer = NoMixer
    /\ pitch = NoPitch
    /\ piano \in SynthPianos
    /\ note \in { SynthRequest(midi) : midi \in RenderNotes(piano) }
    /\ analysis = NoAnalysis

NextSynth ==
    CallGenerateHarmonics \/ CallGenerateHarmonicsUtil \/ CallGenerateHarmonicsV2

SpecSynth == InitSynth /\ [][NextSynth]_vars

InitRender ==
    /\ facade = NoFacade
    /\ disk = NoDisk
    /\ batch = NoBatch
    /\ env = NoEnv
    /\ clip = NoClip
    /\ mixer = NoMixer
    /\ piano = NoPiano
    /\ pitch = NoPitch
    /\ note \in RenderRequests
    /\ analysis = NoAnalysis

NextRender == CallGenerate

SpecRender == InitRender /\ [][NextRender]_vars

InitPitchRange ==
    /\ facade = NoFacade
    /\ disk = NoDisk
    /\ batch = NoBatch
    /\ env = NoEnv
    /\ clip = NoClip
    /\ mixer = NoMixer
    /\ piano = NoPiano
    /\ pitch \in AnyPitchRequests
    /\ note = NoNote
    /\ analysis = NoAnalysis

NextPitchRange == CallMidiToFrequencyAny \/ CallGeneratorMidiToFrequency

SpecPitchRange == InitPitchRange /\ [][NextPitchRange]_vars

InitAnalysis ==
    /\ facade = NoFacade
    /\ disk = NoDisk
    /\ batch = NoBatch
    /\ env = NoEnv
    /\ clip = NoClip
    /\ mixer = NoMixer
    /\ piano = NoPiano
    /\ pitch = NoPitch
    /\ note = NoNote
    /\ \E request \in AnalysisRequests :
          analysis = [op |-> "analysis", given |-> request.given,
                      audio |-> request.given, sr |-> request.sr,
                      midi_note |-> request.midi_note, reports |-> <<>>]

NextAnalysis == CallAnalyzeSpectrum \/ CallCalculateSnr \/ CallCalculateThd

SpecAnalysis == InitAnalysis /\ [][NextAnalysis]_vars

InitExport ==
    /\ facade = NoFacade
    /\ env = NoEnv
    /\ clip = NoClip
    /\ mixer = NoMixer
    /\ piano = NoPiano
    /\ pitch = NoPitch
    /\ note = NoNote
    /\ analysis = NoAnalysis
    /\ disk \in Exporters
    /\ batch = NoBatch

NextExport == CallExport \/ CallExportLegacy \/ FfmpegChanges

SpecExport == InitExport /\ [][NextExport]_vars

InitBatch ==
    /\ facade = NoFacade
    /\ env = NoEnv
    /\ clip = NoClip
    /\ mixer = NoMixer
    /\ piano = NoPiano
    /\ pitch = NoPitch
    /\ note = NoNote
    /\ analysis = NoAnalysis
    /\ disk = NoDisk
    /\ batch \in Batches

NextBatch ==
    \/ SequentialIteration
    \/ FromConfigIteration
    \/ WorkerRuns
    \/ PoolMapReturns
    \/ ProcessNoteTaskRuns

SpecBatch == InitBatch /\ [][NextBatch]_vars

InitHumanize ==
    /\ facade = NoFacade
    /\ env = NoEnv
    /\ clip = NoClip
    /\ mixer = NoMixer
    /\ piano = NoPiano
    /\ pitch = NoPitch
    /\ note \in HumanizeRequests
    /\ analysis = NoAnalysis
    /\ disk = NoDisk
    /\ batch = NoBatch

NextHumanize == CallHumanizeAttack \/ CallHumanizeAttackUtil

SpecHumanize == InitHumanize /\ [][NextHumanize]_vars

InitLevel ==
    /\ facade = NoFacade
    /\ env = NoEnv
    /\ clip = NoClip
    /\ mixer = NoMixer
    /\ piano = NoPiano
    /\ pitch = NoPitch
    /\ note \in LevelRequests
    /\ analysis = NoAnalysis
    /\ disk = NoDisk
    /\ batch = NoBatch

NextLevel == CallGenerateLevel

SpecLevel == InitLevel /\ [][NextLevel]_vars

InitFacade ==
    /\ env = NoEnv
    /\ clip = NoClip
    /\ mixer = NoMixer
    /\ piano = NoPiano
    /\ pitch = NoPitch
    /\ note = NoNote
    /\ analysis = NoAnalysis
    /\ disk = NoDisk
    /\ batch = NoBatch
    /\ facade = NewFacade

NextFacade == SetPianoReverb \/ SetSustainPedal \/ PianoNote \/ PianoNoteWithDuration

SpecFacade == InitFacade /\ [][NextFacade]_vars

InitFactory ==
    /\ env = NoEnv
    /\ clip = NoClip
    /\ mixer = NoMixer
    /\ piano = NoPiano
    /\ pitch = NoPitch
    /\ note \in FactoryRequests
    /\ analysis = NoAnalysis
    /\ disk = NoDisk
    /\ batch = NoBatch
    /\ facade = NoFacade

NextFactory == CallCreateGenerator \/ CallGeneratorGenerate

SpecFactory == InitFactory /\ [][NextFactory]_vars

----------------------------------------------------------------------------
(* Claims *)

EnvCalled == env.result.status # "pending"
EnvReturned == env.result.status = "returned"
TotalSamples ==
    IF env.impl = "util" THEN ToSamples(env.duration_ms, env.sample_rate)
    ELSE env.num_samples
AttackSamples == ToSamples(env.config.attack, env.sample_rate)
DecaySamples == ToSamples(env.config.decay, env.sample_rate)
ReleaseSamples == ToSamples(env.config.release, env.sample_rate)

(* C1: every envelope call returns, without raising, an envelope of exactly *)
(* num_samples entries, also when attack, attack+decay or                   *)
(* attack+decay+release exceed num_samples.                                 *)
C1_AdsrReturnsTotalSamples ==
    EnvCalled => /\ env.result.status = "returned"
                 /\ Len(env.result.envelope) = TotalSamples

(* The merged generator alone never raises and returns num_samples entries. *)
MergedAdsrReturnsTotalSamples ==
    (EnvCalled /\ env.impl = "merged") =>
        /\ env.result.status = "returned"
        /\ Len(env.result.envelope) = TotalSamples

OverLong == AttackSamples + DecaySamples + ReleaseSamples > TotalSamples

(* the written segments lie one after the other from index 0 and end at the *)
(* last index                                                               *)
SegmentsTile ==
    LET g == env.result.seg
    IN  /\ g.attack.len > 0 => g.attack.start = 0
        /\ g.decay.len > 0 => g.decay.start = g.attack.len
        /\ g.sustain.len > 0 => g.sustain.start = g.attack.len + g.decay.len
        /\ g.release.len > 0 =>
               g.release.start = g.attack.len + g.decay.len + g.sustain.len
        /\ g.attack.len + g.decay.len + g.sustain.len + g.release.len = TotalSamples

(* C8: when attack+decay+release exceed num_samples, adsr shortens only the *)
(* release: attack and decay are written in full, sustain is empty, and the *)
(* written segments tile 0..num_samples-1, leaving no index at the zero     *)
(* fill.                                                                    *)
C8_OnlyReleaseShortened ==
    (EnvCalled /\ env.impl = "merged" /\ OverLong) =>
        /\ env.result.status = "returned"
        /\ env.result.seg.attack.len = AttackSamples
        /\ env.result.seg.decay.len = DecaySamples
        /\ env.result.seg.sustain.len = 0
        /\ SegmentsTile

(* C9: for every num_samples >= 1 the last entry of the envelope is at most *)
(* the sustain level, also when the note ends inside attack or decay.       *)
C9_LastEntryAtMostSustain ==
    (EnvReturned /\ env.impl = "merged" /\ TotalSamples >= 1) =>
        env.result.envelope[TotalSamples] <= env.config.sustain

(* C2: for any buffer and any threshold T > 0, every sample of              *)
(* soft_clip(buffer, T) has absolute value at most T.                       *)
C2_SoftClipBound ==
    clip.status = "returned" =>
        \A i \in 1..Len(clip.result) : Abs(clip.result[i]) <= clip.threshold

(* a call has clipped a sample that lay above the threshold *)
C2_Witness ==
    /\ clip.status = "returned"
    /\ \E i \in 1..Len(clip.audio) :
          /\ Abs(clip.audio[i]) > clip.threshold
          /\ clip.result[i] # clip.audio[i]

MixCalled == Len(mixer.results) >= 1
Voices == Len(mixer.audios)

(* the sum of the voices at index i (0-based sample i - 1), a voice that    *)
(* has ended counting 0                                                     *)
RECURSIVE VoiceSum(_, _)
VoiceSum(a, i) ==
    IF a = 0 THEN 0
    ELSE (IF i <= Len(mixer.audios[a]) THEN mixer.audios[a][i] ELSE 0) + VoiceSum(a - 1, i)

(* C3: for N >= 2 buffers ChordMixer.mix divides the sample-wise sum by     *)
(* sqrt(N) before soft clipping at 0.9, for every setting of the flags.     *)
C3_SqrtNNormalization ==
    (mixer.impl = "merged" /\ MixCalled /\ Voices >= 2) =>
        \A c \in 1..Len(mixer.results) :
            /\ Len(mixer.results[c]) = MaxLength(mixer.audios)
            /\ \A i \in 1..Len(mixer.results[c]) :
                  mixer.results[c][i] =
                      SoftClipSample(SDiv(VoiceSum(Voices, i), Sqrt(Voices)), Tenths(9))

(* C7: mix with exactly one buffer returns that buffer, every sample        *)
(* unchanged, whatever its amplitude and whatever the mixer flags.          *)
C7_SinglePassthrough ==
    (MixCalled /\ Voices = 1) =>
        \A c \in 1..Len(mixer.results) : mixer.results[c] = mixer.audios[1]

(* a single buffer with a sample above the clip threshold has been mixed    *)
C7_Witness ==
    /\ MixCalled /\ Voices = 1
    /\ \E i \in 1..Len(mixer.audios[1]) : Abs(mixer.audios[1][i]) > Tenths(9)
    /\ mixer.results[1] = mixer.audios[1]

(* C6: mix([], []) returns an empty buffer, raises nothing, and returns the *)
(* same when called again; generate_chord with an empty note list returns   *)
(* an empty buffer and renders no note.                                     *)
C6_EmptyChord ==
    /\ (MixCalled /\ Voices = 0) =>
           \A c \in 1..Len(mixer.results) : mixer.results[c] = <<>>
    /\ (piano.chord.status \notin {"idle", "pending"}
        /\ Len(piano.chord.midi_notes) = 0) =>
           /\ piano.chord.status = "returned"
           /\ piano.chord.audio = <<>>
           /\ piano.chord.rendered = 0

(* both mixers' callers have mixed the empty chord twice and the generator  *)
(* has been asked for the empty chord                                       *)
C6_Witness ==
    /\ Voices = 0 /\ Len(mixer.results) = 2
    /\ mixer.results[1] = <<>> /\ mixer.results[2] = mixer.results[1]
    /\ Len(piano.chord.midi_notes) = 0 /\ piano.chord.status = "returned"

(* C4: a lookup returns the phase the cache holds for the key and draws     *)
(* only for a key the cache does not hold; a lookup changes no other key;   *)
(* so a key keeps its phase from lookup to lookup until clear_phase_cache,  *)
(* which leaves the cache empty, and the next lookup draws afresh.          *)
C4_PhaseCacheStable ==
    [][ /\ piano'.last.op = "lookup" =>
            LET key == piano'.last.key
            IN  /\ key \in DOMAIN piano'.phase_cache
                /\ piano'.last.phase = piano'.phase_cache[key]
                /\ key \in DOMAIN piano.phase_cache =>
                       /\ piano'.last.phase = piano.phase_cache[key]
                       /\ ~piano'.last.drew
                /\ key \notin DOMAIN piano.phase_cache => piano'.last.drew
                /\ \A k \in DOMAIN piano.phase_cache :
                       /\ k \in DOMAIN piano'.phase_cache
                       /\ piano'.phase_cache[k] = piano.phase_cache[k]
        /\ piano'.last.op = "clear" => DOMAIN piano'.phase_cache = {}
      ]_vars

(* a lookup has returned a cached phase while the cache held other keys too *)
C4_Witness ==
    /\ piano.last.op = "lookup" /\ ~piano.last.drew
    /\ Cardinality(DOMAIN piano.phase_cache) >= 2
    /\ piano.phase_cache[piano.last.key] = piano.last.phase

PitchCalled == pitch.status = "returned"

(* C5: midi_to_frequency follows 440 * 2^((m-69)/12) on 0..127: it gives    *)
(* 440.0 for 69, twice the frequency for the note an octave up, and 2^(1/12)*)
(* times the frequency (to the grid's precision) for the note a semitone up.*)
C5_PitchLaw ==
    PitchCalled =>
        \A m \in DOMAIN pitch.frequency :
            /\ m = 69 => /\ pitch.frequency[m].exp = 0
                         /\ pitch.frequency[m].mant = 440 * SCALE
            /\ (m + 12) \in DOMAIN pitch.frequency =>
                   pitch.frequency[m + 12] = Double(pitch.frequency[m])
            /\ (m + 1) \in DOMAIN pitch.frequency =>
                   LET lo == pitch.frequency[m]
                       hi == pitch.frequency[m + 1]
                       a == lo.mant \div 440
                       b == (hi.mant * (2 ^ (hi.exp - lo.exp))) \div 440
                   IN  Abs(b * SCALE - a * SemitoneRatio[2]) <= 2 * SCALE

(* middle C has been looked up together with the C above it: 261.63 Hz to   *)
(* a hundredth of a hertz                                                   *)
C5_Witness ==
    /\ PitchCalled /\ pitch.midi = 60
    /\ Abs(FreqGrid(pitch.frequency[60]) - 2616300) <= 100
    /\ 72 \in DOMAIN pitch.frequency


HarmonicsCalled == note.op = "harmonics" /\ note.status = "returned"

(* the register band of a pitch: 0 low, 1 mid, 2 high *)
RegisterBand(midi) == IF midi <= 48 THEN 0 ELSE IF midi <= 72 THEN 1 ELSE 2

WellFormedTable(table) ==
    /\ Len(table) >= 1
    /\ table[1].harmonic_number = 1
    /\ \A i \in 1..(Len(table) - 1) :
          table[i].harmonic_number < table[i + 1].harmonic_number
    /\ \A i \in 1..Len(table) :
          /\ table[i].amplitude >= 0 /\ table[i].amplitude <= SCALE
          /\ table[i].decay_rate > 0

(* C14: the harmonic table of a pitch depends only on its register band     *)
(* (low: midi <= 48, mid: 49..72, high: > 72): two pitches of one band get  *)
(* the same table, a higher band never has more harmonics than a lower      *)
(* one, and every table has strictly increasing harmonic numbers starting   *)
(* at 1, amplitudes in [0, 1] and positive decay rates.                     *)
C14_RegisterBandedHarmonics ==
    HarmonicsCalled =>
        /\ RegisterBand(note.midi) = RegisterBand(note.other)
              => note.tables[1] = note.tables[2]
        /\ RegisterBand(note.midi) < RegisterBand(note.other)
              => Len(note.tables[1]) >= Len(note.tables[2])
        /\ WellFormedTable(note.tables[1])
        /\ WellFormedTable(note.tables[2])

(* the two pitches at the upper edge of the low band and just inside it,    *)
(* and a pitch of the mid band against one of the high band                 *)
C14_Witness ==
    /\ HarmonicsCalled
    /\ \/ note.midi = 48 /\ note.other = 47 /\ note.tables[1] = note.tables[2]
       \/ note.midi = 72 /\ note.other = 73
          /\ Len(note.tables[1]) > Len(note.tables[2])

SynthCalled == note.op = "synth" /\ note.calls > 0

(* harmonic number n has a wave in the buffer *)
Sounds(n) == \E i \in 1..Len(note.audio) : note.audio[i].harmonic_number = n

(* C13: in harmonic synthesis a harmonic of the table whose frequency       *)
(* (fundamental times index) exceeds sample_rate / 2 adds nothing to the    *)
(* buffer, and every harmonic at or below sample_rate / 2 is added, for     *)
(* every pitch and every sample rate.                                       *)
C13_NyquistSkipped ==
    SynthCalled =>
        \A i \in 1..Len(note.table) :
            LET n == note.table[i].harmonic_number
            IN  Sounds(n) <=>
                  FreqGrid(note.frequency) * n <= Nyquist(piano.sample_rate)

(* the merged generator alone keeps the rule *)
MergedNyquistSkipped ==
    (SynthCalled /\ piano.impl = "merged") =>
        \A i \in 1..Len(note.table) :
            LET n == note.table[i].harmonic_number
            IN  Sounds(n) <=>
                  FreqGrid(note.frequency) * n <= Nyquist(piano.sample_rate)

(* C12: a render whose chord context is absent or has at most one note      *)
(* uses phase 0 for every harmonic and leaves the phase cache as it was;    *)
(* the cache changes only in chord-mode renders on a generator configured   *)
(* to use random phases.                                                    *)
C12_PhaseZeroOutsideChords ==
    SynthCalled =>
        /\ ~IsChord(note.chord_context) =>
              /\ \A i \in 1..Len(note.audio) : note.audio[i].phase = 0
              /\ piano.phase_cache = note.cache_before
        /\ piano.phase_cache # note.cache_before =>
              IsChord(note.chord_context) /\ piano.config.use_random_phase

(* the merged generator alone keeps the rule *)
MergedPhaseZeroOutsideChords ==
    (SynthCalled /\ piano.impl = "merged") =>
        /\ ~IsChord(note.chord_context) =>
              /\ \A i \in 1..Len(note.audio) : note.audio[i].phase = 0
              /\ piano.phase_cache = note.cache_before
        /\ piano.phase_cache # note.cache_before =>
              IsChord(note.chord_context) /\ piano.config.use_random_phase

RenderCalled == note.op = "render" /\ note.status # "pending"

(* the steps of generate that build or shape the buffer *)
SynthesisSteps ==
    { "create_time_array", "generate_harmonics", "apply_physical_modeling",
      "adsr", "apply_envelope", "lowpass_filter", "apply_fade", "normalize",
      "to_int16" }

(* C19: a render with duration <= 0 fails, the failure is found before any  *)
(* synthesis step runs, and no buffer is returned; any exception is taken   *)
(* for the domain error InvalidDuration.                                    *)
C19_InvalidDurationAtStart ==
    (RenderCalled /\ note.duration <= 0) =>
        /\ note.status = "raised"
        /\ ~note.buffer
        /\ \A i \in 1..Len(note.ran) : note.ran[i] \notin SynthesisSteps

(* what the code does keep: a render with duration <= 0 never returns a     *)
(* buffer, and a render returns a buffer or raises, never both              *)
RenderBufferOrError ==
    RenderCalled =>
        /\ note.duration <= 0 => note.status = "raised"
        /\ note.buffer <=> note.status = "returned"

(* the voices of the request replaced by buffers of one length: their       *)
(* sample-wise sum, a voice that has ended counting 0, and silence for the  *)
(* other voices                                                             *)
SumAndSilence ==
    [a \in 1..Voices |->
        [i \in 1..MaxLength(mixer.audios) |->
            IF a = 1 THEN VoiceSum(Voices, i) ELSE 0]]

C20_InvalidPitchOutsideRange ==
    (pitch.impl \in {"function", "generator"} /\ pitch.status # "pending") =>
        /\ pitch.midi \notin ValidMidi => pitch.status = "raised"
        /\ pitch.status = "returned" => pitch.midi \in ValidMidi

(* what the code does: every integer gets the frequency of the pitch law,   *)
(* an octave up doubling it also outside the MIDI range                     *)
AnyMidiGetsFrequency ==
    (pitch.impl \in {"function", "generator"} /\ pitch.status # "pending") =>
        /\ pitch.status = "returned"
        /\ pitch.frequency[pitch.midi] = MidiToFrequency(pitch.midi)
        /\ MidiToFrequency(pitch.midi + 12) = Double(pitch.frequency[pitch.midi])

Analyzed == analysis.op = "analysis" /\ Len(analysis.reports) >= 1

ReportsOf(op) ==
    { analysis.reports[i].report :
        i \in { j \in 1..Len(analysis.reports) : analysis.reports[j].op = op } }

Silent(audio) == \A i \in 1..Len(audio) : audio[i] = 0

(* C16: analyze_spectrum reports is_accurate exactly when |error_cents| is  *)
(* below 10 cents (strictly), error_cents being 1200 * log2(detected /      *)
(* expected): 0 for equal frequencies, 1200 for an octave; a buffer with no *)
(* positive peak frequency, such as silence, is reported as not accurate.   *)
(* error_cents is held in tenths of a cent.                                 *)
C16_AccurateBelowTenCents ==
    Analyzed =>
        \A r \in ReportsOf("analyze_spectrum") :
            /\ r.is_accurate <=> Abs(r.error_cents) < 100
            /\ r.detected_freq > 0 =>
                  /\ r.error_cents = ErrorCents(r.detected_freq, r.expected_freq)
                  /\ r.detected_freq = r.expected_freq => r.error_cents = 0
                  /\ r.detected_freq = 2 * r.expected_freq => r.error_cents = 12000
                  /\ r.detected_freq > r.expected_freq => r.error_cents >= 0
                  /\ r.detected_freq < r.expected_freq => r.error_cents <= 0
            /\ r.detected_freq <= 0 => ~r.is_accurate
            /\ Silent(analysis.given) => r.detected_freq = 0 /\ ~r.is_accurate

(* a peak exactly 10 cents off the note, reported as not accurate *)
C16_Witness ==
    /\ Analyzed
    /\ \E r \in ReportsOf("analyze_spectrum") :
          r.detected_freq > 0 /\ Abs(r.error_cents) = 100 /\ ~r.is_accurate

(* C17: calculate_snr returns a finite number for every non-empty buffer:   *)
(* 100.0 dB when the noise power is negligible, never infinity or NaN, and  *)
(* it never divides by zero.  The value is held in tenths of a decibel.     *)
C17_SnrFinite ==
    Analyzed =>
        \A r \in ReportsOf("calculate_snr") :
            /\ r.snr.kind = "finite"
            /\ ~r.snr.divided_by_zero
            /\ r.noise_power <= 0 => r.snr.value = 1000

(* a buffer whose whole power lies on the peak line: no noise at all *)
C17_Witness ==
    /\ Analyzed
    /\ \E r \in ReportsOf("calculate_snr") :
          r.signal_power > 0 /\ r.noise_power = 0 /\ r.snr.value = 1000

(* the report each operation gives on the buffer the caller handed over *)
FreshReport(op) ==
    IF op = "analyze_spectrum"
    THEN SpectrumReport(analysis.given, analysis.sr, analysis.midi_note)
    ELSE IF op = "calculate_snr"
    THEN CalculateSnr(analysis.given, analysis.sr).report
    ELSE CalculateThd(analysis.given, analysis.sr,
                      FreqGrid(MidiToFrequencyLegacy(analysis.midi_note))).report

(* C18: analyze_spectrum, calculate_snr and calculate_thd leave every       *)
(* sample of the buffer as it was and keep nothing between calls: whatever  *)
(* was called before, each call reports what it reports on the untouched    *)
(* buffer, so the same call gives the same report again.                    *)
C18_AnalyzerReadOnly ==
    analysis.op = "analysis" =>
        /\ analysis.audio = analysis.given
        /\ \A i \in 1..Len(analysis.reports) :
              analysis.reports[i].report = FreshReport(analysis.reports[i].op)
        /\ \A i, j \in 1..Len(analysis.reports) :
              analysis.reports[i].op = analysis.reports[j].op
                  => analysis.reports[i].report = analysis.reports[j].report

(* a buffer that starts with a sound, analyzed after another call on it *)
C18_Witness ==
    /\ analysis.op = "analysis" /\ Len(analysis.reports) >= 2
    /\ analysis.given[1] # 0
    /\ analysis.reports[1].op = "analyze_spectrum"
    /\ analysis.reports[2].op = "analyze_spectrum"
    /\ analysis.reports[2].report.detected_freq > 0

(* C26: soft_clip preserves the order of magnitudes: for any two samples x, *)
(* y of a buffer with |x| <= |y|, |soft_clip(x)| <= |soft_clip(y)|; the     *)
(* transfer curve has no downward jump just above the threshold.            *)
C26_SoftClipMonotone ==
    clip.status = "returned" =>
        \A i, j \in 1..Len(clip.audio) :
            Abs(clip.audio[i]) <= Abs(clip.audio[j])
                => Abs(clip.result[i]) <= Abs(clip.result[j])

Exported == disk.last.status # "none"

(* the transcoder was missing when export was called, or the conversion failed *)
NoMp3 == ~disk.last.found \/ disk.last.conversion \in {"False", "FileNotFoundError"}

OtherExt(path) ==
    [stem |-> path.stem, ext |-> IF path.ext = "wav" THEN "mp3" ELSE "wav"]

(* C23: when the MP3 transcoder is missing or a conversion fails, export    *)
(* raises no error and returns the path of the WAV file, which exists; and  *)
(* after every export exactly the returned file holds the note: the file of *)
(* the other format of the same name does not exist.                        *)
C23_ExportDegradesToWav ==
    Exported =>
        /\ NoMp3 => /\ disk.last.status = "returned"
                    /\ disk.last.path = [stem |-> disk.last.stem, ext |-> "wav"]
                    /\ disk.files[disk.last.path] = disk.last.audio
        /\ disk.last.status = "returned" =>
              /\ disk.files[disk.last.path] = disk.last.audio
              /\ disk.files[OtherExt(disk.last.path)] = 0

(* what holds of export: no file is returned that does not hold the audio,  *)
(* the WAV file is gone only after a conversion that returned True, and an  *)
(* exporter made without ffmpeg never raises                                *)
ExportReturnsWrittenFile ==
    Exported =>
        /\ disk.last.status = "returned" =>
              disk.files[disk.last.path] = disk.last.audio
        /\ disk.files[[stem |-> disk.last.stem, ext |-> "wav"]] = 0
              => disk.last.conversion = "True"
        /\ ~disk.has_ffmpeg => disk.last.status = "returned"

BatchOver == batch.status \in {"done", "aborted"}

(* the note raises in a step the batch mode runs *)
NoteFails(midi) ==
    IF batch.mode = "from_config"
    THEN batch.outcome[midi].fails \in {"generate", "export"}
    ELSE batch.outcome[midi].fails # "none"

(* the notes some entry of the issue list names *)
IssueNotes ==
    { batch.quality_stats.issues[i].midi : i \in 1..Len(batch.quality_stats.issues) }

(* C21: in a batch render an error raised while rendering, analyzing or     *)
(* exporting one note is caught and recorded against that note, and every   *)
(* remaining note is still processed, in the sequential modes as well as in *)
(* the parallel mode: no run is ended by a note's error, and a finished run *)
(* has counted every note and holds an issue for each note that failed.     *)
C21_ErrorsCaughtBatchContinues ==
    batch.mode \in {"sequential", "parallel", "from_config"} =>
        /\ batch.status # "aborted"
        /\ (batch.status = "done" /\ batch.mode # "from_config") =>
              /\ batch.quality_stats.total = Len(batch.midi_notes)
              /\ \A midi \in MidiNotes : NoteFails(midi) => midi \in IssueNotes

(* what holds: the parallel mode of the pipeline catches every note's error *)
ParallelErrorsCaught ==
    batch.mode = "parallel" =>
        /\ batch.status # "aborted"
        /\ batch.status = "done" =>
              /\ batch.quality_stats.total = Len(batch.midi_notes)
              /\ \A midi \in MidiNotes : NoteFails(midi) => midi \in IssueNotes

(* C28: after any batch run of the pipeline, with any subset of notes       *)
(* failing, accurate <= total, high_snr <= total and len(issues) = total -  *)
(* accurate; every note of the batch is counted exactly once in total.      *)
C28_QualityStatsConsistent ==
    (batch.mode \in {"sequential", "parallel"} /\ BatchOver) =>
        /\ batch.quality_stats.accurate <= batch.quality_stats.total
        /\ batch.quality_stats.high_snr <= batch.quality_stats.total
        /\ Len(batch.quality_stats.issues) =
              batch.quality_stats.total - batch.quality_stats.accurate
        /\ batch.quality_stats.total = Len(batch.midi_notes)

(* what holds: the three relations between the counters, at every moment *)
StatsRelationsHold ==
    batch.mode \in {"sequential", "parallel"} =>
        /\ batch.quality_stats.accurate <= batch.quality_stats.total
        /\ batch.quality_stats.high_snr <= batch.quality_stats.total
        /\ Len(batch.quality_stats.issues) =
              batch.quality_stats.total - batch.quality_stats.accurate

(* the notes that come out pitch-accurate, with a high snr, with a file *)
AccurateNotes ==
    { midi \in MidiNotes :
        batch.outcome[midi].fails = "none" /\ batch.outcome[midi].accurate }
HighSnrNotes ==
    { midi \in MidiNotes :
        batch.outcome[midi].fails = "none" /\ batch.outcome[midi].high_snr }

(* C22: in parallel batch mode the file a note is exported to is determined *)
(* by the note's MIDI number alone, and the collected results are those the *)
(* notes' outcomes fix, the issue list in MIDI order, whatever order the    *)
(* workers finished in.                                                     *)
C22_ParallelDeterministic ==
    /\ batch.mode = "parallel" =>
          /\ \A f \in batch.files : f.path = NoteFile(f.midi)
          /\ batch.status = "done" =>
                /\ batch.quality_stats.total = Len(batch.midi_notes)
                /\ batch.quality_stats.accurate = Cardinality(AccurateNotes)
                /\ batch.quality_stats.high_snr = Cardinality(HighSnrNotes)
                /\ IssueNotes = MidiNotes \ AccurateNotes
                /\ \A i, j \in 1..Len(batch.quality_stats.issues) :
                      i < j => batch.quality_stats.issues[i].midi
                                   < batch.quality_stats.issues[j].midi
                /\ { f.midi : f \in batch.files } =
                      { midi \in MidiNotes : batch.outcome[midi].fails = "none" }
    /\ batch.mode = "v2_parallel" =>
          /\ \A f \in batch.files : f.path = V2NoteFile(f.midi)
          /\ batch.status = "done" =>
                /\ Len(batch.yielded) = Len(batch.midi_notes)
                /\ Cardinality({ i \in 1..Len(batch.yielded) : batch.yielded[i] }) =
                      Cardinality({ midi \in MidiNotes :
                                      batch.outcome[midi].fails = "none" })
                /\ { f.midi : f \in batch.files } =
                      { midi \in MidiNotes :
                          batch.outcome[midi].fails \in {"none", "analyze"} }

(* a parallel run whose workers finished against the MIDI order, with two   *)
(* issues to put in order                                                    *)
C22_Witness ==
    /\ batch.mode = "parallel" /\ batch.status = "done"
    /\ Len(batch.finished) >= 2
    /\ batch.finished[1] > batch.finished[2]
    /\ Len(batch.quality_stats.issues) >= 2
    /\ batch.files # {}

Humanized == note.op = "humanize" /\ note.status = "returned"

(* the delay in samples, with the sign of the delay drawn *)
DelaySamples == Sign(note.delay_ms) * ToSamples(Abs(note.delay_ms), note.sample_rate)

(* C24: attack humanization returns an envelope of exactly the length of    *)
(* its input that is the input shifted by the chosen delay, with zeros in   *)
(* the vacated entries, for every delay the configuration allows, also one  *)
(* longer than the envelope; a delay of 0 samples returns the input.        *)
C24_HumanizeShiftsSameLength ==
    Humanized =>
        /\ Len(note.result) = Len(note.envelope)
        /\ \A i \in 1..Len(note.result) :
              note.result[i] =
                  IF i - DelaySamples \in 1..Len(note.envelope)
                  THEN note.envelope[i - DelaySamples]
                  ELSE 0

(* what holds: a delay shorter than the envelope whose first entry is 0     *)
(* (an attack that starts from silence) is a shift of the same length       *)
ShortDelayShifts ==
    (/\ Humanized
     /\ Abs(DelaySamples) < Len(note.envelope)
     /\ note.envelope[1] = 0) =>
        /\ Len(note.result) = Len(note.envelope)
        /\ \A i \in 1..Len(note.result) :
              note.result[i] =
                  IF i - DelaySamples \in 1..Len(note.envelope)
                  THEN note.envelope[i - DelaySamples]
                  ELSE 0

Levelled == note.op = "level" /\ note.status = "returned"

(* the 16-bit value of a sample that np.clip left alone *)
Quantized(x) == IntTrunc(x * 32767, SCALE)

(* C25: for every pitch in 21..108 and every velocity in [0,1] the peak     *)
(* generate asks normalize for, 0.9 * volume_comp * velocity, is at most    *)
(* 1.0 of full scale, so to_int16 never hard-clips a sample of the note.    *)
C25_TargetPeakWithinFullScale ==
    Levelled =>
        /\ note.target_peak <= SCALE
        /\ \A i \in 1..Len(note.normalized) :
              /\ Abs(note.normalized[i]) <= SCALE
              /\ note.result[i] = Quantized(note.normalized[i])

(* what holds: from MIDI 61 up the compensation is at most 1.0 and the      *)
(* requested peak stays within full scale for every velocity                *)
UpperRegisterWithinFullScale ==
    (Levelled /\ note.midi > 60) =>
        /\ note.target_peak <= SCALE
        /\ \A i \in 1..Len(note.normalized) : Abs(note.normalized[i]) <= SCALE

(* a render in chord context on a generator whose chord optimization is off *)
ChordRenderOptimizationOff ==
    /\ SynthCalled /\ piano.impl \in {"merged", "util"}
    /\ ~piano.config.enabled
    /\ IsChord(note.chord_context)

(* C27: with chord_optimization.enabled = False a render in chord context   *)
(* (two or more sibling pitches) uses no randomness, whatever the value of  *)
(* use_random_phase: every harmonic has phase 0 and the phase cache gets no *)
(* new entry.                                                                *)
C27_OptimizationOffNoRandomness ==
    ChordRenderOptimizationOff =>
        /\ \A i \in 1..Len(note.audio) : note.audio[i].phase = 0
        /\ piano.phase_cache = note.cache_before

(* what holds: audio_util.py asks for enabled before it draws a phase *)
UtilOptimizationOffNoRandomness ==
    (ChordRenderOptimizationOff /\ piano.impl = "util") =>
        /\ \A i \in 1..Len(note.audio) : note.audio[i].phase = 0
        /\ piano.phase_cache = note.cache_before

OverrideCalled == facade.last.op = "piano_note" /\ facade.last.override

(* C29: piano_note with a duration override changes nothing but the audio   *)
(* it returns: after the call, whether it returned or raised, the piano's   *)
(* default duration, the reverb configuration set by set_piano_reverb, the  *)
(* pedal state and every entry the phase cache held are as before the call. *)
C29_DurationOverrideFrame ==
    OverrideCalled =>
        /\ facade.piano_config.duration = facade.last.before.duration
        /\ facade.piano.reverb = facade.last.before.reverb
        /\ facade.piano_config.pedal = facade.last.before.pedal
        /\ \A key \in DOMAIN facade.last.before.phase_cache :
              /\ key \in DOMAIN facade.piano.phase_cache
              /\ facade.piano.phase_cache[key] = facade.last.before.phase_cache[key]

(* what holds: the pedal state is kept, and the duration is restored when   *)
(* the call returned                                                        *)
OverrideKeepsPedal ==
    OverrideCalled =>
        /\ facade.piano_config.pedal = facade.last.before.pedal
        /\ facade.last.status = "returned" =>
              facade.piano_config.duration = facade.last.before.duration

(* generate has been called on the factory's generator *)
FactoryUsed == note.op = "factory" /\ note.status \in {"returned", "raised"}

(* no fluidsynth module, or no generator handed in and no SoundFont to load *)
BackendUnavailable ==
    \/ ~note.has_fluidsynth
    \/ note.fs_generator = "None" /\ note.soundfont = "unavailable"

(* C30: when the soundfont backend is unavailable, create_generator gives,  *)
(* for every instrument type, a generator whose generate(midi) returns a    *)
(* buffer, rendered by the procedural piano synthesizer, and does not raise. *)
C30_FallbackForEveryInstrument ==
    (FactoryUsed /\ BackendUnavailable) =>
        /\ note.status = "returned"
        /\ note.generator.class = "EnhancedPianoGenerator"

(* what holds: the piano falls back *)
PianoFallsBack ==
    (FactoryUsed /\ BackendUnavailable /\ note.instrument_type = "PIANO") =>
        /\ note.status = "returned"
        /\ note.generator.class = "EnhancedPianoGenerator"

====
